---- MODULE Spec2Model ----
(***************************************************************************)
(* Commit analysis pipeline of vkhafizov/aiagent (backend/app).            *)
(*                                                                         *)
(*   Spec          GitHubCollector.get_commits_all_branches: the scan of   *)
(*                 the branches of a repository into the dedup map         *)
(*                 all_commits, one step per commit the branch iterator    *)
(*                 yields, then the sort and the return; then              *)
(*                 get_commits_for_period, which wraps the list in a       *)
(*                 CommitCollection, and the answer of the generate-posts  *)
(*                 endpoint that called it.                                *)
(*   SpecClassify  GitHubCollector._classify_commit_type,                  *)
(*                 _is_breaking_change, _affects_security and              *)
(*                 _affects_performance applied to a drawn message and     *)
(*                 file list.                                              *)
(*   SpecImpact    DataProcessor._calculate_impact_score applied to a      *)
(*                 drawn commit.                                           *)
(*   SpecRisk      DataProcessor._assess_risk_level applied to a drawn     *)
(*                 commit set, and again after a commit of the set was     *)
(*                 replaced by its breaking twin.                          *)
(*   SpecPhase     DataProcessor._analyze_commit_type_trends applied to a  *)
(*                 drawn commit list.                                      *)
(*   SpecTrends    DataProcessor.analyze_commit_trends applied to a drawn  *)
(*                 commit list.                                            *)
(*   SpecCollection  CommitCollection built from drawn keyword arguments,  *)
(*                 _analyze_commits run again, commits_per_hour read.      *)
(*   SpecConvert   GitHubCollector._convert_github_commit applied to a     *)
(*                 drawn payload, whose file list may stop being readable  *)
(*                 part-way.                                               *)
(*                                                                         *)
(* Python strings are TLA+ strings; substring tests are done character by  *)
(* character with SubSeq. str.lower() is modelled on the ASCII letters.    *)
(* Scores are kept in hundredths (0.02 is 2, 1.0 is 100): every weight of  *)
(* _calculate_impact_score is a whole number of hundredths.                *)
(***************************************************************************)
EXTENDS Integers, Sequences, FiniteSets, TLC

VARIABLES
    \* ---- get_commits_all_branches
    pc,                  \* "start", "scan", "returned", "raised", "collected",
                         \* "responded", or "idle"
    branches,            \* list(repo.get_branches())[:max_branches], by name
    remote,              \* branch name -> the shas repo.get_commits(sha=branch) holds
    failAt,              \* branch name -> 0, or the position at which the loop over
                         \* branch_commits raises: the iterator, or the conversion
                         \* of the record at that position
    bi,                  \* position of the for loop over branches
    ci,                  \* position of the for loop over branch_commits
    all_commits,         \* the dict keyed by sha, as its values in insertion order
    branch_stats,        \* branch name -> new commit count, or "Error"
    branch_commit_count,
    commits_list,        \* the list returned
    \* ---- classifier
    message,
    files,
    classified,          \* NotClassified, or the four derived fields
    \* ---- impact score
    commit,
    impact_score,        \* NoScore (-1), or the score in hundredths
    \* ---- DataProcessor.analyze_commit_trends and its parts
    commits,             \* the list of Commit handed to the analysis
    risk_level,          \* "", or what _assess_risk_level returned
    report,              \* NoReport, or the dict the analysis returned
    \* ---- CommitCollection
    data,                \* the keyword arguments of CommitCollection(...)
    collection,          \* NoCollection, or the object after __init__
    commits_per_hour,    \* NoRate, or the property as the fraction num/den
    response,            \* NoResponse, or the PostsResponse of the endpoint
    \* ---- _convert_github_commit
    github_commit,       \* the payload of the API
    filesFailAt,         \* 0, or the position at which github_commit.files raises
    converted            \* NotConverted, or the Commit built

scanVars == <<pc, branches, remote, failAt, bi, ci, all_commits, branch_stats,
              branch_commit_count, commits_list>>
clsVars == <<message, files, classified>>
impVars == <<commit, impact_score>>
anaVars == <<commits, risk_level, report>>
colVars == <<data, collection, commits_per_hour, response>>
cnvVars == <<github_commit, filesFailAt, converted>>
vars == <<scanVars, clsVars, impVars, anaVars, colVars, cnvVars>>

-----------------------------------------------------------------------------
(* Strings                                                                 *)

\* `k in s`
Contains(s, k) ==
    \E i \in 1..(Len(s) - Len(k) + 1) : SubSeq(s, i, i + Len(k) - 1) = k

\* s.endswith(k)
EndsWith(s, k) ==
    Len(s) >= Len(k) /\ SubSeq(s, Len(s) - Len(k) + 1, Len(s)) = k

UpperLetters == "ABCDEFGHIJKLMNOPQRSTUVWXYZ"
LowerLetters == "abcdefghijklmnopqrstuvwxyz"

LowerChar(c) ==
    IF \E i \in 1..Len(UpperLetters) : SubSeq(UpperLetters, i, i) = c
    THEN LET i == CHOOSE j \in 1..Len(UpperLetters) : SubSeq(UpperLetters, j, j) = c
         IN  SubSeq(LowerLetters, i, i)
    ELSE c

\* s.lower()
RECURSIVE Lower(_)
Lower(s) ==
    IF Len(s) = 0 THEN ""
    ELSE LowerChar(SubSeq(s, 1, 1)) \o Lower(SubSeq(s, 2, Len(s)))

\* any(keyword in s for keyword in keywords)
AnyIn(keywords, s) == \E i \in 1..Len(keywords) : Contains(s, keywords[i])

-----------------------------------------------------------------------------
(* CommitType and the classifier                                           *)

CommitType == {"feature", "bugfix", "security", "performance", "documentation",
               "refactor", "test", "style", "chore", "other"}

FeatureKeywords == <<"feat:", "feature:", "add:", "new:">>
BugfixKeywords == <<"fix:", "bug:", "bugfix:", "hotfix:">>
SecurityTypeKeywords == <<"security:", "sec:", "vulnerability", "cve">>
PerformanceTypeKeywords == <<"perf:", "performance:", "optimize:", "speed:">>
DocumentationKeywords == <<"docs:", "doc:", "documentation:", "readme">>
RefactorKeywords == <<"refactor:", "refactoring:", "cleanup:", "restructure:">>
TestKeywords == <<"test:", "tests:", "testing:", "spec:">>
StyleKeywords == <<"style:", "format:", "lint:", "prettier:">>
ChoreKeywords == <<"chore:", "build:", "ci:", "deps:">>

IsTestFile(f) ==
    Contains(Lower(f), "test") \/ EndsWith(f, ".test.js") \/ EndsWith(f, "_test.py")

IsDocFile(f) ==
    \/ EndsWith(Lower(f), ".md") \/ EndsWith(Lower(f), ".rst") \/ EndsWith(Lower(f), ".txt")
    \/ Contains(Lower(f), "doc")

\* sum(1 for f in files if ...)
TestFiles(fs) == Cardinality({i \in 1..Len(fs) : IsTestFile(fs[i])})
DocFiles(fs) == Cardinality({i \in 1..Len(fs) : IsDocFile(fs[i])})

\* A file heuristic that is content with half of the files.
ClassifyByFilesAtLeastHalf(fs) ==
    IF Len(fs) > 0 /\ 2 * TestFiles(fs) >= Len(fs) THEN "test"
    ELSE IF Len(fs) > 0 /\ 2 * DocFiles(fs) >= Len(fs) THEN "documentation"
    ELSE "other"

\* The file heuristic; n > len(files) * 0.5 is 2 * n > len(files).
ClassifyByFiles(fs) ==
    IF Len(fs) > 0 /\ 2 * TestFiles(fs) > Len(fs) THEN "test"
    ELSE IF Len(fs) > 0 /\ 2 * DocFiles(fs) > Len(fs) THEN "documentation"
    ELSE "other"

\* A classifier that tests the raw message instead of message.lower().
ClassifyCaseSensitive(msg, fs) ==
    IF AnyIn(FeatureKeywords, msg) THEN "feature"
    ELSE IF AnyIn(BugfixKeywords, msg) THEN "bugfix"
    ELSE IF AnyIn(SecurityTypeKeywords, msg) THEN "security"
    ELSE IF AnyIn(PerformanceTypeKeywords, msg) THEN "performance"
    ELSE IF AnyIn(DocumentationKeywords, msg) THEN "documentation"
    ELSE IF AnyIn(RefactorKeywords, msg) THEN "refactor"
    ELSE IF AnyIn(TestKeywords, msg) THEN "test"
    ELSE IF AnyIn(StyleKeywords, msg) THEN "style"
    ELSE IF AnyIn(ChoreKeywords, msg) THEN "chore"
    ELSE ClassifyByFiles(fs)

ClassifyCommitType(msg, fs) ==
    LET message_lower == Lower(msg) IN
    IF AnyIn(FeatureKeywords, message_lower) THEN "feature"
    ELSE IF AnyIn(BugfixKeywords, message_lower) THEN "bugfix"
    ELSE IF AnyIn(SecurityTypeKeywords, message_lower) THEN "security"
    ELSE IF AnyIn(PerformanceTypeKeywords, message_lower) THEN "performance"
    ELSE IF AnyIn(DocumentationKeywords, message_lower) THEN "documentation"
    ELSE IF AnyIn(RefactorKeywords, message_lower) THEN "refactor"
    ELSE IF AnyIn(TestKeywords, message_lower) THEN "test"
    ELSE IF AnyIn(StyleKeywords, message_lower) THEN "style"
    ELSE IF AnyIn(ChoreKeywords, message_lower) THEN "chore"
    ELSE ClassifyByFiles(fs)

BreakingIndicators == <<"breaking change", "breaking:", "break:", "major:",
                        "BREAKING CHANGE", "BREAKING:", "!:", "major version">>

\* A breaking-change test that knows only the lower-case indicators.
IsBreakingLowerOnly(msg) ==
    AnyIn(SubSeq(BreakingIndicators, 1, 4), msg)

\* The indicators are looked up in the raw message, not in message.lower().
IsBreakingChange(msg) == AnyIn(BreakingIndicators, msg)

SecurityKeywords == <<"security", "vulnerability", "cve", "auth", "authentication",
                      "authorization", "crypto", "encrypt", "decrypt", "hash", "token",
                      "password", "secret", "credential">>
SecurityFiles == <<"auth", "security", "crypto", "password", "token", "credential">>

AffectsSecurity(msg, fs) ==
    \/ AnyIn(SecurityKeywords, Lower(msg))
    \/ \E i \in 1..Len(fs) : AnyIn(SecurityFiles, Lower(fs[i]))

PerformanceKeywords == <<"performance", "optimize", "speed", "fast", "slow", "cache",
                         "memory", "cpu", "benchmark", "profil", "bottleneck">>

AffectsPerformance(msg, fs) == AnyIn(PerformanceKeywords, Lower(msg))

-----------------------------------------------------------------------------
(* The commit source: what the GitHub API holds for a branch               *)

NumShas == 2
MaxBranchCommits == 2

Shas == 1..NumShas
BranchNames == {"main", "dev", "feat"}
BranchIx(b) == IF b = "main" THEN 0 ELSE IF b = "dev" THEN 1 ELSE 2

NoAuthor == [name |-> "", email |-> "", login |-> ""]
NoLogin == ""

RawMessages == <<"fix: null pointer", "feat: add login", "BREAKING CHANGE: remove v1 API",
                 "Security: rotate token", "update readme">>
RawAuthors == <<[name |-> "Ann", email |-> "ann@example.com", login |-> "ann"],
                NoAuthor,
                [name |-> "Bob", email |-> "bob@example.com", login |-> NoLogin],
                [name |-> "Ann", email |-> "ann@corp.example", login |-> "ann2"]>>
RawFiles == <<
    <<[filename |-> "src/app.py", additions |-> 30, deletions |-> 5, changes |-> 35]>>,
    <<>>,
    <<[filename |-> "tests/test_app.py", additions |-> 4, deletions |-> 0, changes |-> 4],
      [filename |-> "src/auth/login.py", additions |-> 400, deletions |-> 120, changes |-> 520]>>,
    <<[filename |-> "README.md", additions |-> 2, deletions |-> 1, changes |-> 3]>> >>
RawDates == <<2, 1, 2, 3>>

Pick(table, n) == table[(n % Len(table)) + 1]

\* The GithubCommit that branch b serves for sha s. The same sha is served with
\* another payload on another branch, so that the first sighting can be told
\* from the later ones.
GithubCommit(b, s) ==
    [sha |-> s,
     message |-> Pick(RawMessages, s + 2 * BranchIx(b)),
     author |-> Pick(RawAuthors, s + BranchIx(b)),
     files |-> Pick(RawFiles, s + 3 * BranchIx(b)),
     date |-> Pick(RawDates, s + BranchIx(b))]

\* The histories a branch can hold: the API lists every branch's history in one
\* order, so a history is an increasing run of shas.
CommitLists ==
    {l \in UNION {[1..n -> Shas] : n \in 0..MaxBranchCommits} :
        \A i \in 1..(Len(l) - 1) : l[i] < l[i + 1]}

\* The orders in which repo.get_branches() can list the branches it has.
BranchOrders ==
    {o \in UNION {[1..n -> BranchNames] : n \in 0..Cardinality(BranchNames)} :
        \A i, j \in 1..Len(o) : i # j => o[i] # o[j]}

Range(f) == {f[x] : x \in DOMAIN f}

-----------------------------------------------------------------------------
(* _convert_github_commit                                                  *)

\* sum(...) over a list of numbers
RECURSIVE Sum(_)
Sum(seq) == IF seq = <<>> THEN 0 ELSE seq[1] + Sum(Tail(seq))

Filenames(file_changes) == [i \in 1..Len(file_changes) |-> file_changes[i].filename]

\* A conversion whose total_changes sums the additions alone.
ConvertGithubCommitAdditionsOnly(gc) ==
    LET file_changes == gc.files
        filenames == Filenames(file_changes)
    IN  [sha |-> gc.sha,
         message |-> gc.message,
         author |-> IF gc.author # NoAuthor
                    THEN [name |-> gc.author.name, email |-> gc.author.email,
                          username |-> gc.author.login]
                    ELSE [name |-> "Unknown", email |-> "", username |-> NoLogin],
         timestamp |-> gc.date,
         branch |-> "main",
         files_changed |-> file_changes,
         files_count |-> Len(file_changes),
         additions |-> Sum([i \in 1..Len(file_changes) |-> file_changes[i].additions]),
         deletions |-> Sum([i \in 1..Len(file_changes) |-> file_changes[i].deletions]),
         total_changes |-> Sum([i \in 1..Len(file_changes) |-> file_changes[i].additions]),
         commit_type |-> ClassifyCommitType(gc.message, filenames),
         is_breaking_change |-> IsBreakingChange(gc.message),
         affects_security |-> AffectsSecurity(gc.message, filenames),
         affects_performance |-> AffectsPerformance(gc.message, filenames)]

ConvertGithubCommit(gc) ==
    LET file_changes == gc.files
        filenames == Filenames(file_changes)
    IN  [sha |-> gc.sha,
         message |-> gc.message,
         author |-> IF gc.author # NoAuthor
                    THEN [name |-> gc.author.name, email |-> gc.author.email,
                          username |-> gc.author.login]
                    ELSE [name |-> "Unknown", email |-> "", username |-> NoLogin],
         timestamp |-> gc.date,
         branch |-> "main",
         files_changed |-> file_changes,
         files_count |-> Len(file_changes),
         additions |-> Sum([i \in 1..Len(file_changes) |-> file_changes[i].additions]),
         deletions |-> Sum([i \in 1..Len(file_changes) |-> file_changes[i].deletions]),
         total_changes |-> Sum([i \in 1..Len(file_changes) |-> file_changes[i].changes]),
         commit_type |-> ClassifyCommitType(gc.message, filenames),
         is_breaking_change |-> IsBreakingChange(gc.message),
         affects_security |-> AffectsSecurity(gc.message, filenames),
         affects_performance |-> AffectsPerformance(gc.message, filenames)]

\* ConvertGithubCommit of every payload of the source, computed once.
Converted == [b \in BranchNames, s \in Shas |-> ConvertGithubCommit(GithubCommit(b, s))]

-----------------------------------------------------------------------------
(* get_commits_all_branches                                                *)

\* Before the analysis has run: no category yet, no score yet.
NotClassified == [commit_type |-> "", is_breaking_change |-> FALSE,
                  affects_security |-> FALSE, affects_performance |-> FALSE]
NoCommit == [files_count |-> 0, total_changes |-> 0, commit_type |-> "",
             is_breaking_change |-> FALSE, affects_security |-> FALSE]
NoScore == 0 - 1
NoReport == [pending |-> TRUE]
NoData == [pending |-> TRUE]
NoCollection == [pending |-> TRUE]
NoRate == [num |-> 0 - 1, den |-> 1]
NoResponse == [pending |-> TRUE]
NoGithubCommit == [pending |-> TRUE]
NotConverted == [pending |-> TRUE]

\* The variables of the other specifications, at rest.
ClassifierIdle == message = "" /\ files = <<>> /\ classified = NotClassified
ImpactIdle == commit = NoCommit /\ impact_score = NoScore
AnalysisIdle == commits = <<>> /\ risk_level = "" /\ report = NoReport
CollectionIdle ==
    /\ data = NoData
    /\ collection = NoCollection
    /\ commits_per_hour = NoRate
    /\ response = NoResponse
ConvertIdle ==
    /\ github_commit = NoGithubCommit
    /\ filesFailAt = 0
    /\ converted = NotConverted

\* The variables of the scan, at rest.
ScanIdle ==
    /\ pc = "idle"
    /\ branches = <<>>
    /\ remote = [b \in BranchNames |-> <<>>]
    /\ failAt = [b \in BranchNames |-> 0]
    /\ bi = 1
    /\ ci = 1
    /\ all_commits = <<>>
    /\ branch_stats = <<>>
    /\ branch_commit_count = 0
    /\ commits_list = <<>>

Max(a, b) == IF a >= b THEN a ELSE b

\* github_commit.sha in all_commits
HasSha(m, s) == \E i \in 1..Len(m) : m[i].sha = s
\* all_commits[github_commit.sha]
IndexOfSha(m, s) == CHOOSE i \in 1..Len(m) : m[i].sha = s

\* A tie-break that always relabels a record with the branch of the last sighting.
BranchLabelLastWins(existing_branch, branch_name) == branch_name

\* A tie-break that never relabels.
BranchLabelFirstWins(existing_branch, branch_name) == existing_branch

\* A tie-break that hands a record back to "main" when "main" sights it.
BranchLabelBackToMain(existing_branch, branch_name) ==
    IF existing_branch = "main" /\ branch_name # "main"
    THEN branch_name
    ELSE IF branch_name = "main" THEN "main" ELSE existing_branch

\* The label of a stored record after it is sighted again on branch_name.
BranchLabel(existing_branch, branch_name) ==
    IF existing_branch = "main" /\ branch_name # "main"
    THEN branch_name
    ELSE existing_branch

\* A loop body that stores the payload of the last sighting.
SightingOverwrites(m, branch_name, s) ==
    IF ~HasSha(m, s)
    THEN Append(m, [Converted[branch_name, s] EXCEPT !.branch = branch_name])
    ELSE LET i == IndexOfSha(m, s)
         IN  [m EXCEPT ![i] = [Converted[branch_name, s] EXCEPT
                                  !.branch = BranchLabel(m[i].branch, branch_name)]]

\* One pass of the loop over branch_commits: sha s is sighted on branch_name.
Sighting(m, branch_name, s) ==
    IF ~HasSha(m, s)
    THEN Append(m, [Converted[branch_name, s] EXCEPT !.branch = branch_name])
    ELSE LET i == IndexOfSha(m, s)
         IN  [m EXCEPT ![i].branch = BranchLabel(m[i].branch, branch_name)]

\* list.sort(key=lambda c: c.timestamp, reverse=True): stable, so records with
\* equal timestamps keep the order they had.
InsertByTimestampDesc(sorted, c) ==
    LET k == Cardinality({i \in 1..Len(sorted) : sorted[i].timestamp >= c.timestamp})
    IN  SubSeq(sorted, 1, k) \o <<c>> \o SubSeq(sorted, k + 1, Len(sorted))

RECURSIVE SortByTimestampDesc(_)
SortByTimestampDesc(l) ==
    IF l = <<>> THEN <<>>
    ELSE InsertByTimestampDesc(SortByTimestampDesc(SubSeq(l, 1, Len(l) - 1)), l[Len(l)])

\* A return that leaves the list in the order of the dict.
CommitsListUnsorted(m) == m

\* list(all_commits.values()) and the sort.
CommitsList(m) == SortByTimestampDesc(m)

\* branch_stats[branch_name] = value
SetStat(stats, b, value) ==
    [x \in DOMAIN stats \cup {b} |-> IF x = b THEN value ELSE stats[x]]

Init ==
    /\ pc = "start"
    /\ branches \in BranchOrders
    /\ remote \in [BranchNames -> CommitLists]
    /\ failAt \in [BranchNames -> 0..(MaxBranchCommits + 1)]
    /\ \A b \in BranchNames :
          /\ failAt[b] <= Max(Len(remote[b]), 1)
          /\ b \notin Range(branches) => remote[b] = <<>> /\ failAt[b] = 0
    /\ bi = 1
    /\ ci = 1
    /\ all_commits = <<>>
    /\ branch_stats = <<>>
    /\ branch_commit_count = 0
    /\ commits_list = <<>>
    /\ ClassifierIdle
    /\ ImpactIdle
    /\ AnalysisIdle
    /\ CollectionIdle
    /\ ConvertIdle

\* self.github.get_repo or repo.get_branches raises: logged and raised again.
RepoError ==
    /\ pc = "start"
    /\ pc' = "raised"
    /\ UNCHANGED <<branches, remote, failAt, bi, ci, all_commits, branch_stats,
                   branch_commit_count, commits_list,
                   clsVars, impVars, anaVars, colVars, cnvVars>>

\* The repository and its branches are listed; the loop over branches starts.
StartScan ==
    /\ pc = "start"
    /\ pc' = "scan"
    /\ UNCHANGED <<branches, remote, failAt, bi, ci, all_commits, branch_stats,
                   branch_commit_count, commits_list,
                   clsVars, impVars, anaVars, colVars, cnvVars>>

InBranch == pc = "scan" /\ bi <= Len(branches)
ThisBranch == branches[bi]
Yields == InBranch /\ failAt[ThisBranch] # ci /\ ci <= Len(remote[ThisBranch])

\* The iterator yields a sha that is not in all_commits.
InsertCommit ==
    /\ Yields
    /\ ~HasSha(all_commits, remote[ThisBranch][ci])
    /\ all_commits' = Sighting(all_commits, ThisBranch, remote[ThisBranch][ci])
    /\ branch_commit_count' = branch_commit_count + 1
    /\ ci' = ci + 1
    /\ UNCHANGED <<pc, branches, remote, failAt, bi, branch_stats, commits_list,
                   clsVars, impVars, anaVars, colVars, cnvVars>>

\* The iterator yields a sha that is already in all_commits.
UpdateBranchInfo ==
    /\ Yields
    /\ HasSha(all_commits, remote[ThisBranch][ci])
    /\ all_commits' = Sighting(all_commits, ThisBranch, remote[ThisBranch][ci])
    /\ ci' = ci + 1
    /\ UNCHANGED <<pc, branches, remote, failAt, bi, branch_stats, branch_commit_count,
                   commits_list, clsVars, impVars, anaVars, colVars, cnvVars>>

\* The iterator is exhausted: the count is recorded and the next branch starts.
BranchDone ==
    /\ InBranch
    /\ failAt[ThisBranch] # ci
    /\ ci > Len(remote[ThisBranch])
    /\ branch_stats' = SetStat(branch_stats, ThisBranch, branch_commit_count)
    /\ bi' = bi + 1
    /\ ci' = 1
    /\ branch_commit_count' = 0
    /\ UNCHANGED <<pc, branches, remote, failAt, all_commits, commits_list,
                   clsVars, impVars, anaVars, colVars, cnvVars>>

\* A loop without the inner try: the exception of one branch ends the call.
BranchErrorAborts ==
    /\ InBranch
    /\ failAt[ThisBranch] = ci
    /\ pc' = "raised"
    /\ UNCHANGED <<branches, remote, failAt, bi, ci, all_commits, branch_stats,
                   branch_commit_count, commits_list,
                   clsVars, impVars, anaVars, colVars, cnvVars>>

\* The iteration raises, in the iterator or in _convert_github_commit: logged,
\* recorded, and the loop continues with the next branch.
BranchError ==
    /\ InBranch
    /\ failAt[ThisBranch] = ci
    /\ branch_stats' = SetStat(branch_stats, ThisBranch, "Error")
    /\ bi' = bi + 1
    /\ ci' = 1
    /\ branch_commit_count' = 0
    /\ UNCHANGED <<pc, branches, remote, failAt, all_commits, commits_list,
                   clsVars, impVars, anaVars, colVars, cnvVars>>

\* After the loop: the values of the dict, sorted, are returned.
ReturnCommits ==
    /\ pc = "scan"
    /\ bi > Len(branches)
    /\ commits_list' = CommitsList(all_commits)
    /\ pc' = "returned"
    /\ UNCHANGED <<branches, remote, failAt, bi, ci, all_commits, branch_stats,
                   branch_commit_count, clsVars, impVars, anaVars, colVars, cnvVars>>

-----------------------------------------------------------------------------
(* The classifier applied to one commit: SpecClassify                      *)

MaxWords == 2

Words == {"feat: ", "fix: ", "FIX: ", "prefix: ", "cve-2024 ", "sec: ", "perf: ", "README ",
          "refactor: ", "spec: ", "lint: ", "ci: ", "new token ", "update login ",
          "BREAKING CHANGE: remove v1 API"}

RECURSIVE Concat(_)
Concat(ws) == IF ws = <<>> THEN "" ELSE ws[1] \o Concat(Tail(ws))

Messages == {Concat(ws) : ws \in UNION {[1..n -> Words] : n \in 0..MaxWords}}

FileLists == {<<>>,
              <<"src/app.py">>,
              <<"tests/test_app.py">>,
              <<"README.md">>,
              <<"src/auth/login.py">>,
              <<"tests/test_app.py", "src/app.py">>,
              <<"docs/guide.rst", "tests/test_api.py", "CHANGELOG.txt">>,
              <<"src/Widget.test.js", "lib/util_test.py", "src/app.py">>,
              <<"docs/test_plan.md">>}

InitClassify ==
    /\ message \in Messages
    /\ files \in FileLists
    /\ classified = NotClassified
    /\ ScanIdle
    /\ ImpactIdle
    /\ AnalysisIdle
    /\ CollectionIdle
    /\ ConvertIdle

\* The "Analyze commit" block of _convert_github_commit.
AnalyzeCommit ==
    /\ classified = NotClassified
    /\ classified' = [commit_type |-> ClassifyCommitType(message, files),
                      is_breaking_change |-> IsBreakingChange(message),
                      affects_security |-> AffectsSecurity(message, files),
                      affects_performance |-> AffectsPerformance(message, files)]
    /\ UNCHANGED <<message, files, scanVars, impVars, anaVars, colVars, cnvVars>>

NextClassify == AnalyzeCommit

SpecClassify == InitClassify /\ [][NextClassify]_vars

-----------------------------------------------------------------------------
(* _calculate_impact_score applied to one commit: SpecImpact               *)

MaxFilesCount == 11

ChangeVolumes == {0, 1, 20, 21, 100, 101, 500, 501, 2000}

\* type_weights.get(commit.commit_type, 0.05), in hundredths
TypeWeight(commit_type) ==
    CASE commit_type = "security" -> 40
      [] commit_type = "feature" -> 30
      [] commit_type = "bugfix" -> 20
      [] commit_type = "performance" -> 20
      [] commit_type = "refactor" -> 10
      [] commit_type = "documentation" -> 5
      [] commit_type = "test" -> 5
      [] commit_type = "style" -> 2
      [] commit_type = "chore" -> 2
      [] OTHER -> 5

Min(a, b) == IF a <= b THEN a ELSE b

\* The sum of the five components, in hundredths.
RawImpactScore(c) ==
    (IF c.files_count > 10 THEN 30
     ELSE IF c.files_count > 5 THEN 20
     ELSE IF c.files_count > 1 THEN 10
     ELSE 0)
    + (IF c.total_changes > 500 THEN 30
       ELSE IF c.total_changes > 100 THEN 20
       ELSE IF c.total_changes > 20 THEN 10
       ELSE 0)
    + TypeWeight(c.commit_type)
    + (IF c.is_breaking_change THEN 20 ELSE 0)
    + (IF c.affects_security THEN 20 ELSE 0)

\* A score returned without the cap.
CalculateImpactScoreUncapped(c) == RawImpactScore(c)

\* return min(score, 1.0)
CalculateImpactScore(c) == Min(RawImpactScore(c), 100)

InitImpact ==
    /\ commit \in [files_count : 0..MaxFilesCount,
                   total_changes : ChangeVolumes,
                   commit_type : CommitType,
                   is_breaking_change : BOOLEAN,
                   affects_security : BOOLEAN]
    /\ impact_score = NoScore
    /\ ScanIdle
    /\ ClassifierIdle
    /\ AnalysisIdle
    /\ CollectionIdle
    /\ ConvertIdle

ScoreCommit ==
    /\ impact_score = NoScore
    /\ impact_score' = CalculateImpactScore(commit)
    /\ UNCHANGED <<commit, scanVars, clsVars, anaVars, colVars, cnvVars>>

NextImpact == ScoreCommit

SpecImpact == InitImpact /\ [][NextImpact]_vars

-----------------------------------------------------------------------------
(* _assess_risk_level applied to a commit set: SpecRisk                    *)

MaxRiskCommits == 10

\* A commit of score 0.02, one of score 0.22 that affects security, one of
\* score 0.5 that a breaking change lifts to 0.7, and one of score 0.9.
PlainCommit == [files_count |-> 0, total_changes |-> 0, commit_type |-> "chore",
                is_breaking_change |-> FALSE, affects_security |-> FALSE]
SecurityCommit == [PlainCommit EXCEPT !.affects_security = TRUE]
NearHighCommit == [PlainCommit EXCEPT !.files_count = 6, !.commit_type = "feature"]
HighImpactCommit == [NearHighCommit EXCEPT !.files_count = 11, !.total_changes = 501]
RiskCommits == <<PlainCommit, SecurityCommit, NearHighCommit, HighImpactCommit>>

RECURSIVE Repeat(_, _)
Repeat(c, n) == IF n = 0 THEN <<>> ELSE <<c>> \o Repeat(c, n - 1)

\* count[k] copies of pool[k], for k, k + 1, ...
RECURSIVE Runs(_, _, _)
Runs(pool, count, k) ==
    IF k > Len(pool) THEN <<>>
    ELSE Repeat(pool[k], count[k]) \o Runs(pool, count, k + 1)

\* The commit sets handed to the assessment: count[k] copies of RiskCommits[k].
\* The assessment counts commits, so the order of a set does not matter to it.
RiskCommitSets ==
    {Runs(RiskCommits, count, 1) :
        count \in {c \in [1..Len(RiskCommits) -> 0..MaxRiskCommits] :
                      Sum(c) <= MaxRiskCommits}}

\* An assessment that tests for "medium" before it tests for "high".
AssessRiskLevelMediumFirst(cs) ==
    LET total_commits == Len(cs)
        breaking == Cardinality({i \in 1..Len(cs) : cs[i].is_breaking_change})
        security == Cardinality({i \in 1..Len(cs) : cs[i].affects_security})
        high_impact == Cardinality({i \in 1..Len(cs) : CalculateImpactScore(cs[i]) >= 70})
    IN  IF total_commits = 0 THEN "no_changes"
        ELSE IF 10 * high_impact > 3 * total_commits \/ breaking > 0 THEN "medium"
        ELSE IF 10 * breaking > total_commits \/ 5 * security > total_commits THEN "high"
        ELSE "low"

\* An assessment whose security test also fires at a ratio of exactly 0.2.
AssessRiskLevelSecurityInclusive(cs) ==
    LET total_commits == Len(cs)
        breaking == Cardinality({i \in 1..Len(cs) : cs[i].is_breaking_change})
        security == Cardinality({i \in 1..Len(cs) : cs[i].affects_security})
        high_impact == Cardinality({i \in 1..Len(cs) : CalculateImpactScore(cs[i]) >= 70})
    IN  IF total_commits = 0 THEN "no_changes"
        ELSE IF 10 * breaking > total_commits \/ 5 * security >= total_commits THEN "high"
        ELSE IF 10 * high_impact > 3 * total_commits \/ breaking > 0 THEN "medium"
        ELSE "low"

\* The ratios are compared as whole numbers: k / n > 0.1 is 10 * k > n, and so
\* on; the float quotient and the exact one agree on every such test.
AssessRiskLevel(cs) ==
    LET total_commits == Len(cs)
        breaking == Cardinality({i \in 1..Len(cs) : cs[i].is_breaking_change})
        security == Cardinality({i \in 1..Len(cs) : cs[i].affects_security})
        high_impact == Cardinality({i \in 1..Len(cs) : CalculateImpactScore(cs[i]) >= 70})
    IN  IF total_commits = 0 THEN "no_changes"
        ELSE IF 10 * breaking > total_commits \/ 5 * security > total_commits THEN "high"
        ELSE IF 10 * high_impact > 3 * total_commits \/ breaking > 0 THEN "medium"
        ELSE "low"

InitRisk ==
    /\ commits \in RiskCommitSets
    /\ risk_level = ""
    /\ report = NoReport
    /\ ScanIdle
    /\ ClassifierIdle
    /\ ImpactIdle
    /\ CollectionIdle
    /\ ConvertIdle

AssessRisk ==
    /\ risk_level = ""
    /\ risk_level' = AssessRiskLevel(commits)
    /\ UNCHANGED <<commits, report, scanVars, clsVars, impVars, colVars, cnvVars>>

\* The set is assessed again after commit i was replaced by its breaking twin.
\* Of several equal commits the first is the one replaced: replacing another
\* gives the same set in another order.
ReplaceByBreaking(i) ==
    /\ risk_level # ""
    /\ ~commits[i].is_breaking_change
    /\ \A j \in 1..(i - 1) : commits[j] # commits[i]
    /\ commits' = [commits EXCEPT ![i].is_breaking_change = TRUE]
    /\ risk_level' = AssessRiskLevel(commits')
    /\ UNCHANGED <<report, scanVars, clsVars, impVars, colVars, cnvVars>>

NextRisk ==
    \/ AssessRisk
    \/ \E i \in 1..Len(commits) : ReplaceByBreaking(i)

SpecRisk == InitRisk /\ [][NextRisk]_vars

-----------------------------------------------------------------------------
(* _analyze_commit_type_trends applied to a commit list: SpecPhase         *)

MaxPhaseCommits == 7

PhaseTypes == <<"feature", "bugfix", "refactor", "documentation">>

\* Timestamps are whole hours; two commits of a list are twelve hours apart.
HoursPerDay == 24
PhaseCommit(commit_type, position) ==
    [commit_type |-> commit_type, timestamp |-> 12 * (position - 1)]

\* The lists handed to the analysis, oldest first: count[k] commits of
\* PhaseTypes[k]. analyze_commit_trends calls it with a list that is not empty.
PhaseCommitLists ==
    {LET types == Runs(PhaseTypes, count, 1)
     IN  [i \in 1..Len(types) |-> PhaseCommit(types[i], i)] :
        count \in {c \in [1..Len(PhaseTypes) -> 0..MaxPhaseCommits] :
                      Sum(c) >= 1 /\ Sum(c) <= MaxPhaseCommits}}

\* The keys of a dict filled from seq, in insertion order.
RECURSIVE Keys(_)
Keys(seq) ==
    IF seq = <<>> THEN <<>>
    ELSE LET before == Keys(SubSeq(seq, 1, Len(seq) - 1))
             last == seq[Len(seq)]
         IN  IF \E i \in 1..Len(before) : before[i] = last THEN before
             ELSE Append(before, last)

\* Counter(c.commit_type.value for c in commits), as its items in insertion order
TypeCounts(cs) ==
    LET types == Keys([i \in 1..Len(cs) |-> cs[i].commit_type])
    IN  [k \in 1..Len(types) |->
            [type |-> types[k],
             count |-> Cardinality({i \in 1..Len(cs) : cs[i].commit_type = types[k]})]]

\* max(items, key=count): the first of the items with the highest count
FirstMax(items) ==
    items[CHOOSE k \in 1..Len(items) :
             /\ \A j \in 1..Len(items) : items[j].count <= items[k].count
             /\ \A j \in 1..(k - 1) : items[j].count < items[k].count]

\* type_ratios.get(commit_type, 0), as the fraction num/den
RatioOf(type_ratios, commit_type) ==
    IF \E k \in 1..Len(type_ratios) : type_ratios[k].type = commit_type
    THEN LET k == CHOOSE k \in 1..Len(type_ratios) : type_ratios[k].type = commit_type
         IN  [num |-> type_ratios[k].num, den |-> type_ratios[k].den]
    ELSE [num |-> 0, den |-> 1]

\* A classification that tests the bugfix ratio before the feature ratio.
ClassifyDevelopmentPhaseBugfixFirst(type_ratios) ==
    LET feature_ratio == RatioOf(type_ratios, "feature")
        bugfix_ratio == RatioOf(type_ratios, "bugfix")
        refactor_ratio == RatioOf(type_ratios, "refactor")
    IN  IF 2 * bugfix_ratio.num > bugfix_ratio.den THEN "stabilization"
        ELSE IF 5 * feature_ratio.num > 2 * feature_ratio.den THEN "active_development"
        ELSE IF 10 * refactor_ratio.num > 3 * refactor_ratio.den THEN "maintenance"
        ELSE IF /\ 5 * feature_ratio.num > feature_ratio.den
                /\ 5 * bugfix_ratio.num > bugfix_ratio.den THEN "balanced_development"
        ELSE "mixed_activity"

\* num/den > 0.4 is 5 * num > 2 * den, and so on for 0.5, 0.3 and 0.2.
ClassifyDevelopmentPhase(type_ratios) ==
    LET feature_ratio == RatioOf(type_ratios, "feature")
        bugfix_ratio == RatioOf(type_ratios, "bugfix")
        refactor_ratio == RatioOf(type_ratios, "refactor")
    IN  IF 5 * feature_ratio.num > 2 * feature_ratio.den THEN "active_development"
        ELSE IF 2 * bugfix_ratio.num > bugfix_ratio.den THEN "stabilization"
        ELSE IF 10 * refactor_ratio.num > 3 * refactor_ratio.den THEN "maintenance"
        ELSE IF /\ 5 * feature_ratio.num > feature_ratio.den
                /\ 5 * bugfix_ratio.num > bugfix_ratio.den THEN "balanced_development"
        ELSE "mixed_activity"

\* type_timeline: for every day, in insertion order, the counter of its types
TypeTimeline(cs) ==
    LET days == Keys([i \in 1..Len(cs) |-> cs[i].timestamp \div HoursPerDay])
    IN  [d \in 1..Len(days) |->
            [day |-> days[d],
             types |-> TypeCounts(SelectSeq(cs,
                          LAMBDA c : c.timestamp \div HoursPerDay = days[d]))]]

AnalyzeCommitTypeTrends(cs) ==
    LET type_counts == TypeCounts(cs)
        total_commits == Len(cs)
        type_ratios == IF total_commits > 0
                       THEN [k \in 1..Len(type_counts) |->
                                [type |-> type_counts[k].type,
                                 num |-> type_counts[k].count,
                                 den |-> total_commits]]
                       ELSE <<>>
    IN  [type_distribution |-> type_counts,
         type_ratios |-> type_ratios,
         dominant_type |-> IF type_counts # <<>> THEN <<FirstMax(type_counts)>> ELSE <<>>,
         type_timeline |-> TypeTimeline(cs),
         development_phase |-> ClassifyDevelopmentPhase(type_ratios)]

InitPhase ==
    /\ commits \in PhaseCommitLists
    /\ risk_level = ""
    /\ report = NoReport
    /\ ScanIdle
    /\ ClassifierIdle
    /\ ImpactIdle
    /\ CollectionIdle
    /\ ConvertIdle

AnalyzeTypes ==
    /\ report = NoReport
    /\ report' = AnalyzeCommitTypeTrends(commits)
    /\ UNCHANGED <<commits, risk_level, scanVars, clsVars, impVars, colVars, cnvVars>>

NextPhase == AnalyzeTypes

SpecPhase == InitPhase /\ [][NextPhase]_vars

-----------------------------------------------------------------------------
(* analyze_commit_trends applied to a commit list: SpecTrends              *)
(* The report is modelled by its sections summary, contributors, types and *)
(* impact; timestamps are whole hours.                                     *)

MaxTrendCommits == 4

\* The commits the lists are drawn from: commit k as the API serves it, converted.
TrendCommit(k) ==
    ConvertGithubCommit([sha |-> k,
                         message |-> Pick(RawMessages, k),
                         author |-> Pick(RawAuthors, k),
                         files |-> Pick(RawFiles, k),
                         date |-> Pick(RawDates, k)])

TrendCommits == [k \in 1..MaxTrendCommits |-> TrendCommit(k)]

\* The lists handed to the analysis: any commits of TrendCommits, each at most
\* once (a collected list holds a sha once), in any order.
TrendCommitLists ==
    {[i \in 1..Len(ks) |-> TrendCommits[ks[i]]] :
        ks \in {l \in UNION {[1..n -> 1..MaxTrendCommits] : n \in 0..MaxTrendCommits} :
                   \A i, j \in 1..Len(l) : i # j => l[i] # l[j]}}

\* sorted(commits, key=lambda c: c.timestamp): stable
InsertByTimestampAsc(sorted, c) ==
    LET k == Cardinality({i \in 1..Len(sorted) : sorted[i].timestamp <= c.timestamp})
    IN  SubSeq(sorted, 1, k) \o <<c>> \o SubSeq(sorted, k + 1, Len(sorted))

RECURSIVE SortByTimestampAsc(_)
SortByTimestampAsc(l) ==
    IF l = <<>> THEN <<>>
    ELSE InsertByTimestampAsc(SortByTimestampAsc(SubSeq(l, 1, Len(l) - 1)), l[Len(l)])

\* sorted(..., key=lambda x: x[1]["commits"], reverse=True): stable
InsertByCommitsDesc(sorted, e) ==
    LET k == Cardinality({i \in 1..Len(sorted) : sorted[i].commits >= e.commits})
    IN  SubSeq(sorted, 1, k) \o <<e>> \o SubSeq(sorted, k + 1, Len(sorted))

RECURSIVE SortByCommitsDesc(_)
SortByCommitsDesc(l) ==
    IF l = <<>> THEN <<>>
    ELSE InsertByCommitsDesc(SortByCommitsDesc(SubSeq(l, 1, Len(l) - 1)), l[Len(l)])

\* seq[:n]
Take(seq, n) == SubSeq(seq, 1, Min(n, Len(seq)))

MinOf(S) == CHOOSE x \in S : \A y \in S : x <= y
MaxOf(S) == CHOOSE x \in S : \A y \in S : x >= y

\* The value result[contributor_name] is given for the contributor_stats of
\* one email, over the commits cs.
ContributorEntry(cs, email) ==
    LET own == SelectSeq(cs, LAMBDA c : c.author.email = email)
        stamps == {own[i].timestamp : i \in 1..Len(own)}
    IN  [name |-> own[1].author.name,
         email |-> email,
         commits |-> Len(own),
         additions |-> Sum([i \in 1..Len(own) |-> own[i].additions]),
         deletions |-> Sum([i \in 1..Len(own) |-> own[i].deletions]),
         files_changed |-> Cardinality(UNION {Range(Filenames(own[i].files_changed)) :
                                                 i \in 1..Len(own)}),
         dominant_type |-> FirstMax(TypeCounts(own)).type,
         activity_span_hours |-> MaxOf(stamps) - MinOf(stamps)]

TopContributorsShown == 10

\* result is a dict keyed by contributor_name: a name written again keeps its
\* place and takes the value written last.
AnalyzeContributors(cs) ==
    LET emails == Keys([i \in 1..Len(cs) |-> cs[i].author.email])
        entries == [k \in 1..Len(emails) |-> ContributorEntry(cs, emails[k])]
        names == Keys([k \in 1..Len(entries) |-> entries[k].name])
        result == [n \in 1..Len(names) |->
                      entries[MaxOf({k \in 1..Len(entries) : entries[k].name = names[n]})]]
    IN  [total_contributors |-> Len(result),
         top_contributors |-> Take(SortByCommitsDesc(result), TopContributorsShown),
         collaboration_score |-> IF cs # <<>>
                                 THEN [num |-> Len(result), den |-> Len(cs)]
                                 ELSE [num |-> 0, den |-> 1]]

NotableCommitsShown == 5

\* Three independent tests in place of the if / elif / else chain.
AnalyzeCommitImpactOverlapping(cs) ==
    LET high_impact == SelectSeq(cs, LAMBDA c : CalculateImpactScore(c) >= 70)
        medium_impact == SelectSeq(cs, LAMBDA c : CalculateImpactScore(c) >= 40)
        low_impact == SelectSeq(cs, LAMBDA c : CalculateImpactScore(c) < 40)
        notable == Take(high_impact, NotableCommitsShown)
    IN  [impact_distribution |-> [high |-> Len(high_impact),
                                  medium |-> Len(medium_impact),
                                  low |-> Len(low_impact)],
         security_updates |-> Len(SelectSeq(cs, LAMBDA c : c.affects_security)),
         breaking_changes |-> Len(SelectSeq(cs, LAMBDA c : c.is_breaking_change)),
         risk_assessment |-> AssessRiskLevel(cs),
         notable_commits |-> [i \in 1..Len(notable) |->
                                 [sha |-> notable[i].sha,
                                  message |-> notable[i].message,
                                  impact_score |-> CalculateImpactScore(notable[i]),
                                  type |-> notable[i].commit_type]]]

\* Scores are in hundredths: >= 0.7 is >= 70 and >= 0.4 is >= 40.
AnalyzeCommitImpact(cs) ==
    LET high_impact == SelectSeq(cs, LAMBDA c : CalculateImpactScore(c) >= 70)
        medium_impact == SelectSeq(cs, LAMBDA c : /\ CalculateImpactScore(c) < 70
                                                  /\ CalculateImpactScore(c) >= 40)
        low_impact == SelectSeq(cs, LAMBDA c : CalculateImpactScore(c) < 40)
        notable == Take(high_impact, NotableCommitsShown)
    IN  [impact_distribution |-> [high |-> Len(high_impact),
                                  medium |-> Len(medium_impact),
                                  low |-> Len(low_impact)],
         security_updates |-> Len(SelectSeq(cs, LAMBDA c : c.affects_security)),
         breaking_changes |-> Len(SelectSeq(cs, LAMBDA c : c.is_breaking_change)),
         risk_assessment |-> AssessRiskLevel(cs),
         notable_commits |-> [i \in 1..Len(notable) |->
                                 [sha |-> notable[i].sha,
                                  message |-> notable[i].message,
                                  impact_score |-> CalculateImpactScore(notable[i]),
                                  type |-> notable[i].commit_type]]]

\* The report of a list that is not empty.
TrendReport(cs) ==
    LET sorted_commits == SortByTimestampAsc(cs)
    IN  [summary |->
            [total_commits |-> Len(cs),
             time_span |-> sorted_commits[Len(sorted_commits)].timestamp
                              - sorted_commits[1].timestamp,
             unique_contributors |-> Cardinality({cs[i].author.email : i \in 1..Len(cs)}),
             files_affected |-> Cardinality(UNION {Range(Filenames(cs[i].files_changed)) :
                                                      i \in 1..Len(cs)}),
             total_changes |-> Sum([i \in 1..Len(cs) |-> cs[i].total_changes])],
         contributors |-> AnalyzeContributors(sorted_commits),
         types |-> AnalyzeCommitTypeTrends(sorted_commits),
         impact |-> AnalyzeCommitImpact(sorted_commits)]

\* An analysis that answers an empty list with a report of zeros.
AnalyzeCommitTrendsZeroReport(cs) ==
    IF cs = <<>>
    THEN [summary |-> [total_commits |-> 0, time_span |-> 0, unique_contributors |-> 0,
                       files_affected |-> 0, total_changes |-> 0]]
    ELSE TrendReport(cs)

AnalyzeCommitTrends(cs) ==
    IF cs = <<>>
    THEN [error |-> "No commits to analyze"]
    ELSE TrendReport(cs)

InitTrends ==
    /\ commits \in TrendCommitLists
    /\ risk_level = ""
    /\ report = NoReport
    /\ ScanIdle
    /\ ClassifierIdle
    /\ ImpactIdle
    /\ CollectionIdle
    /\ ConvertIdle

AnalyzeTrends ==
    /\ report = NoReport
    /\ report' = AnalyzeCommitTrends(commits)
    /\ UNCHANGED <<commits, risk_level, scanVars, clsVars, impVars, colVars, cnvVars>>

NextTrends ==
    \/ AnalyzeTrends
    \/ AssessRisk

SpecTrends == InitTrends /\ [][NextTrends]_vars

-----------------------------------------------------------------------------
(* CommitCollection: construction, _analyze_commits and commits_per_hour:  *)
(* SpecCollection. Times are whole hours; a dict is the list of its items   *)
(* in insertion order; avatar_url is not modelled.                          *)

MaxCollectionCommits == 2
MaxTotalCommits == 2
MaxWindowHours == 1
MaxAnalyses == 2

TopContributorsLimit == 5
MostChangedFilesLimit == 10

\* sorted(file_changes.values(), key=lambda x: x["changes"], reverse=True): stable
InsertByChangesDesc(sorted, f) ==
    LET k == Cardinality({i \in 1..Len(sorted) : sorted[i].changes >= f.changes})
    IN  SubSeq(sorted, 1, k) \o <<f>> \o SubSeq(sorted, k + 1, Len(sorted))

RECURSIVE SortByChangesDesc(_)
SortByChangesDesc(l) ==
    IF l = <<>> THEN <<>>
    ELSE InsertByChangesDesc(SortByChangesDesc(SubSeq(l, 1, Len(l) - 1)), l[Len(l)])

\* commit.author.username or commit.author.name
AuthorKey(c) == IF c.author.username # NoLogin THEN c.author.username ELSE c.author.name

\* contributors.values(), in insertion order
ContributorValues(cs) ==
    LET authors == Keys([i \in 1..Len(cs) |-> AuthorKey(cs[i])])
    IN  [k \in 1..Len(authors) |->
            LET own == SelectSeq(cs, LAMBDA c : AuthorKey(c) = authors[k])
            IN  [name |-> authors[k],
                 commits |-> Len(own),
                 additions |-> Sum([i \in 1..Len(own) |-> own[i].additions]),
                 deletions |-> Sum([i \in 1..Len(own) |-> own[i].deletions])]]

\* every file_change of every commit, in the order the two loops visit them
RECURSIVE AllFileChanges(_)
AllFileChanges(cs) ==
    IF cs = <<>> THEN <<>> ELSE cs[1].files_changed \o AllFileChanges(Tail(cs))

\* file_changes.values(), in insertion order
FileChangeValues(cs) ==
    LET changed == AllFileChanges(cs)
        filenames == Keys(Filenames(changed))
    IN  [k \in 1..Len(filenames) |->
            LET own == SelectSeq(changed, LAMBDA f : f.filename = filenames[k])
            IN  [filename |-> filenames[k],
                 changes |-> Sum([i \in 1..Len(own) |-> own[i].changes]),
                 commits |-> Len(own)]]

\* What _analyze_commits assigns for a list that is not empty.
DerivedSummary(cs) ==
    [commit_types |-> TypeCounts(cs),
     top_contributors |-> Take(SortByCommitsDesc(ContributorValues(cs)), TopContributorsLimit),
     most_changed_files |-> Take(SortByChangesDesc(FileChangeValues(cs)), MostChangedFilesLimit),
     breaking_changes |-> Cardinality({i \in 1..Len(cs) : cs[i].is_breaking_change}),
     security_updates |-> Cardinality({i \in 1..Len(cs) : cs[i].affects_security})]

\* An analysis that adds its counts to the ones the object holds.
AnalyzeCommitsAccumulating(c) ==
    IF c.commits = <<>> THEN c
    ELSE LET d == DerivedSummary(c.commits)
         IN  [c EXCEPT !.commit_types = d.commit_types,
                       !.top_contributors = d.top_contributors,
                       !.most_changed_files = d.most_changed_files,
                       !.breaking_changes = @ + d.breaking_changes,
                       !.security_updates = @ + d.security_updates]

\* _analyze_commits: returns at once for an empty list, and otherwise assigns
\* the five fields from accumulators that start empty.
AnalyzeCommits(c) ==
    IF c.commits = <<>> THEN c
    ELSE LET d == DerivedSummary(c.commits)
         IN  [c EXCEPT !.commit_types = d.commit_types,
                       !.top_contributors = d.top_contributors,
                       !.most_changed_files = d.most_changed_files,
                       !.breaking_changes = d.breaking_changes,
                       !.security_updates = d.security_updates]

\* The defaults of the five summary fields of the class.
DefaultSummary ==
    [commit_types |-> <<>>, top_contributors |-> <<>>, most_changed_files |-> <<>>,
     breaking_changes |-> 0, security_updates |-> 0]

\* Values a caller, or a file that is loaded, can hold for them.
PassedSummary ==
    [commit_types |-> <<[type |-> "feature", count |-> 2]>>,
     top_contributors |-> <<[name |-> "zed", commits |-> 9, additions |-> 1, deletions |-> 1]>>,
     most_changed_files |-> <<[filename |-> "setup.py", changes |-> 4, commits |-> 1]>>,
     breaking_changes |-> 3, security_updates |-> 1]

\* The totals as get_commits_for_period computes them for its list.
ComputedTotals(cs) ==
    [total_additions |-> Sum([i \in 1..Len(cs) |-> cs[i].additions]),
     total_deletions |-> Sum([i \in 1..Len(cs) |-> cs[i].deletions]),
     total_files_changed |-> Sum([i \in 1..Len(cs) |-> cs[i].files_count])]

\* Totals a caller, or a file that is loaded, can hold.
PassedTotals == [total_additions |-> 7, total_deletions |-> 7, total_files_changed |-> 7]

CollectionData(cs, start_time, end_time, total_commits, totals, summary) ==
    [commits |-> cs,
     start_time |-> start_time,
     end_time |-> end_time,
     total_commits |-> total_commits,
     total_additions |-> totals.total_additions,
     total_deletions |-> totals.total_deletions,
     total_files_changed |-> totals.total_files_changed,
     commit_types |-> summary.commit_types,
     top_contributors |-> summary.top_contributors,
     most_changed_files |-> summary.most_changed_files,
     breaking_changes |-> summary.breaking_changes,
     security_updates |-> summary.security_updates]

CollectionCommitLists == {l \in TrendCommitLists : Len(l) <= MaxCollectionCommits}

\* CommitCollection(**data): the fields are set from data, then _analyze_commits
\* runs. analyses counts the runs of _analyze_commits on the object.
NewCommitCollection(d) ==
    LET c == AnalyzeCommits(d)
    IN  [commits |-> c.commits, start_time |-> c.start_time, end_time |-> c.end_time,
         total_commits |-> c.total_commits, total_additions |-> c.total_additions,
         total_deletions |-> c.total_deletions,
         total_files_changed |-> c.total_files_changed,
         commit_types |-> c.commit_types, top_contributors |-> c.top_contributors,
         most_changed_files |-> c.most_changed_files,
         breaking_changes |-> c.breaking_changes,
         security_updates |-> c.security_updates,
         analyses |-> 1]

\* time_period_hours
TimePeriodHours(c) == c.end_time - c.start_time

\* A rate computed without the test of the window length; den = 0 is the
\* division that raises.
CommitsPerHourUnguarded(c) == [num |-> c.total_commits, den |-> TimePeriodHours(c)]

\* commits_per_hour, as the fraction num/den
CommitsPerHour(c) ==
    IF TimePeriodHours(c) > 0
    THEN [num |-> c.total_commits, den |-> TimePeriodHours(c)]
    ELSE [num |-> 0, den |-> 1]

\* The keyword arguments of the constructor call are drawn.
InitCollection ==
    /\ \E cs \in CollectionCommitLists :
       \E start_time \in 0..MaxWindowHours, end_time \in 0..MaxWindowHours :
       \E total_commits \in 0..MaxTotalCommits :
       \E totals \in {PassedTotals, ComputedTotals(cs)} :
       \E summary \in {DefaultSummary, PassedSummary} :
          data = CollectionData(cs, start_time, end_time, total_commits, totals, summary)
    /\ collection = NoCollection
    /\ commits_per_hour = NoRate
    /\ response = NoResponse
    /\ ScanIdle
    /\ ClassifierIdle
    /\ ImpactIdle
    /\ AnalysisIdle
    /\ ConvertIdle

Construct ==
    /\ collection = NoCollection
    /\ collection' = NewCommitCollection(data)
    /\ UNCHANGED <<data, commits_per_hour, response, scanVars, clsVars, impVars,
                   anaVars, cnvVars>>

\* _analyze_commits is run again on the constructed object.
AnalyzeCommitsAgain ==
    /\ collection # NoCollection
    /\ collection.analyses < MaxAnalyses
    /\ collection' = [AnalyzeCommits(collection) EXCEPT !.analyses = @ + 1]
    /\ UNCHANGED <<data, commits_per_hour, response, scanVars, clsVars, impVars,
                   anaVars, cnvVars>>

ReadCommitsPerHour ==
    /\ collection # NoCollection
    /\ commits_per_hour = NoRate
    /\ commits_per_hour' = CommitsPerHour(collection)
    /\ UNCHANGED <<data, collection, response, scanVars, clsVars, impVars,
                   anaVars, cnvVars>>

NextCollection ==
    \/ Construct
    \/ AnalyzeCommitsAgain
    \/ ReadCommitsPerHour

SpecCollection == InitCollection /\ [][NextCollection]_vars

-----------------------------------------------------------------------------
(* get_commits_for_period and the generate-posts endpoint: Spec            *)

\* The periods the endpoint accepts, in hours, and the hour of the call.
PeriodHours == {2, 24}
Now == 24

\* The posts the endpoint builds from a generated post, by their type.
PostLists == {<<>>,
              <<"summary", "technical", "benefits">>,
              <<"summary", "technical", "benefits", "code">>}

\* get_commits_for_period after get_commits returned: the totals are computed
\* from the list and the collection is constructed.
CollectForPeriod ==
    /\ pc = "returned"
    /\ \E hours \in PeriodHours :
          collection' = NewCommitCollection(
              CollectionData(commits_list, Now - hours, Now, Len(commits_list),
                             ComputedTotals(commits_list), DefaultSummary))
    /\ pc' = "collected"
    /\ UNCHANGED <<branches, remote, failAt, bi, ci, all_commits, branch_stats,
                   branch_commit_count, commits_list, data, commits_per_hour, response,
                   clsVars, impVars, anaVars, cnvVars>>

\* An endpoint that answers a window without commits as a failure.
RespondNoCommitsAsError ==
    /\ pc = "collected"
    /\ collection.commits = <<>>
    /\ response' = [success |-> FALSE, posts |-> <<>>]
    /\ pc' = "responded"
    /\ UNCHANGED <<branches, remote, failAt, bi, ci, all_commits, branch_stats,
                   branch_commit_count, commits_list, data, collection, commits_per_hour,
                   clsVars, impVars, anaVars, cnvVars>>

\* if not commits.commits: the empty but successful response
RespondNoCommits ==
    /\ pc = "collected"
    /\ collection.commits = <<>>
    /\ response' = [success |-> TRUE, posts |-> <<>>]
    /\ pc' = "responded"
    /\ UNCHANGED <<branches, remote, failAt, bi, ci, all_commits, branch_stats,
                   branch_commit_count, commits_list, data, collection, commits_per_hour,
                   clsVars, impVars, anaVars, cnvVars>>

\* There are commits: the post generator is asked, and it answers with a post
\* (with or without content and code snippets), or without success, or raises.
RespondPosts ==
    /\ pc = "collected"
    /\ collection.commits # <<>>
    /\ \/ \E posts \in PostLists : response' = [success |-> TRUE, posts |-> posts]
       \/ response' = [success |-> FALSE, posts |-> <<>>]
    /\ pc' = "responded"
    /\ UNCHANGED <<branches, remote, failAt, bi, ci, all_commits, branch_stats,
                   branch_commit_count, commits_list, data, collection, commits_per_hour,
                   clsVars, impVars, anaVars, cnvVars>>

\* The collector raised: the endpoint answers "Internal server error".
RespondError ==
    /\ pc = "raised"
    /\ response' = [success |-> FALSE, posts |-> <<>>]
    /\ pc' = "responded"
    /\ UNCHANGED <<branches, remote, failAt, bi, ci, all_commits, branch_stats,
                   branch_commit_count, commits_list, data, collection, commits_per_hour,
                   clsVars, impVars, anaVars, cnvVars>>

Next ==
    \/ RepoError
    \/ StartScan
    \/ InsertCommit
    \/ UpdateBranchInfo
    \/ BranchDone
    \/ BranchError
    \/ ReturnCommits
    \/ CollectForPeriod
    \/ RespondNoCommits
    \/ RespondPosts
    \/ RespondError

Spec == Init /\ [][Next]_vars

-----------------------------------------------------------------------------
(* _convert_github_commit applied to one payload: SpecConvert              *)

MaxFiles == 2
MaxLines == 1

\* The files of a payload: the API reports for every file its additions, its
\* deletions, and their sum as its changes.
ApiFiles ==
    {[filename |-> f, additions |-> a, deletions |-> d, changes |-> a + d] :
        f \in {"src/app.py", "README.md"}, a \in 0..MaxLines, d \in 0..MaxLines}

ApiFileLists == UNION {[1..n -> ApiFiles] : n \in 0..MaxFiles}

ApiCommit(author, api_files) ==
    [sha |-> 1, message |-> "update readme", author |-> author, files |-> api_files,
     date |-> 1]

\* _extract_file_changes: the files read before the loop raises, all of them
\* when it does not (fail_at = 0).
ExtractFileChanges(api_files, fail_at) ==
    IF fail_at = 0 THEN api_files ELSE SubSeq(api_files, 1, fail_at - 1)

InitConvert ==
    /\ \E author \in {RawAuthors[1], NoAuthor}, api_files \in ApiFileLists :
          github_commit = ApiCommit(author, api_files)
    /\ filesFailAt \in 0..MaxFiles
    /\ filesFailAt <= Len(github_commit.files)
    /\ converted = NotConverted
    /\ ScanIdle
    /\ ClassifierIdle
    /\ ImpactIdle
    /\ AnalysisIdle
    /\ CollectionIdle

Convert ==
    /\ converted = NotConverted
    /\ converted' = ConvertGithubCommit(
                        [github_commit EXCEPT
                            !.files = ExtractFileChanges(github_commit.files, filesFailAt)])
    /\ UNCHANGED <<github_commit, filesFailAt, scanVars, clsVars, impVars, anaVars, colVars>>

NextConvert == Convert

SpecConvert == InitConvert /\ [][NextConvert]_vars

-----------------------------------------------------------------------------
(* _analyze_commit_impact applied to a commit list: SpecTiers              *)

MaxTierCommits == 6

\* A commit of score 0.02, one of score 0.4, one of score 0.7 and one of
\* score 0.9: the two tier boundaries and a score on either side of them.
LowTierCommit == [sha |-> 0, message |-> "m", files_count |-> 0, total_changes |-> 0,
                  commit_type |-> "chore", is_breaking_change |-> FALSE,
                  affects_security |-> FALSE]
MediumTierCommit == [LowTierCommit EXCEPT !.commit_type = "security"]
HighTierCommit == [LowTierCommit EXCEPT !.files_count = 6, !.commit_type = "feature",
                                        !.is_breaking_change = TRUE]
TopTierCommit == [LowTierCommit EXCEPT !.files_count = 11, !.total_changes = 501,
                                       !.commit_type = "feature"]
TierCommits == <<LowTierCommit, MediumTierCommit, HighTierCommit, TopTierCommit>>

\* The list holds one to MaxTierCommits commits, the commit at position i
\* with sha i, in the order the caller sorted them.
InitTiers ==
    /\ \E n \in 1..MaxTierCommits :
           \E kind \in [1..n -> 1..Len(TierCommits)] :
               commits = [i \in 1..n |-> [TierCommits[kind[i]] EXCEPT !.sha = i]]
    /\ risk_level = ""
    /\ report = NoReport
    /\ ScanIdle
    /\ ClassifierIdle
    /\ ImpactIdle
    /\ CollectionIdle
    /\ ConvertIdle

AnalyzeImpact ==
    /\ report = NoReport
    /\ report' = AnalyzeCommitImpact(commits)
    /\ UNCHANGED <<commits, risk_level, scanVars, clsVars, impVars, colVars, cnvVars>>

NextTiers == AnalyzeImpact

SpecTiers == InitTiers /\ [][NextTiers]_vars

-----------------------------------------------------------------------------
(* _analyze_commit_timeline applied to a sorted commit list: SpecTimeline.  *)
(* Here a timestamp is a whole number of minutes, so that commits of one    *)
(* hour can differ in time; a velocity is held in hundredths.              *)

MaxTimelineCommits == 4
MinutesPerHour == 60

\* The times commits are made at: two in the first hour, two in the second,
\* one in the third.
TimelineStamps == <<0, 35, 70, 105, 140>>

\* strftime("%Y-%m-%d %H:00"): the hour a time lies in
HourKey(timestamp) == timestamp \div MinutesPerHour

\* round(num / den, 2) in hundredths: the nearest hundredth. A quotient exactly
\* half-way between two hundredths is rounded by the float that stands for it,
\* to the even one when the float is exact; TimelineStamps gives no such quotient.
Round2(num, den) ==
    LET q == (100 * num) \div den
        r == (100 * num) % den
    IN  IF 2 * r < den THEN q
        ELSE IF 2 * r > den THEN q + 1
        ELSE IF q % 2 = 0 THEN q ELSE q + 1

NoHour == 0 - 1

\* max(items, key=count) that keeps the last of the items with the highest count.
LastMax(items) ==
    items[CHOOSE k \in 1..Len(items) :
             /\ \A j \in 1..Len(items) : items[j].count <= items[k].count
             /\ \A j \in (k + 1)..Len(items) : items[j].count < items[k].count]

\* A timeline whose peak is the last of the busiest hours.
AnalyzeCommitTimelineLastPeak(cs) ==
    LET hours == Keys([i \in 1..Len(cs) |-> HourKey(cs[i].timestamp)])
        InHour(h) == SelectSeq(cs, LAMBDA c : HourKey(c.timestamp) = h)
        hourly_commits == [k \in 1..Len(hours) |->
                              [hour |-> hours[k], count |-> Len(InHour(hours[k]))]]
        hourly_changes == [k \in 1..Len(hours) |->
                              [hour |-> hours[k],
                               changes |-> Sum([i \in 1..Len(InHour(hours[k])) |->
                                                   InHour(hours[k])[i].total_changes])]]
        time_span == cs[Len(cs)].timestamp - cs[1].timestamp
        velocity == IF Len(cs) > 1 /\ time_span > 0
                    THEN Round2(Len(cs) * MinutesPerHour, time_span)
                    ELSE 0
    IN  [hourly_distribution |-> hourly_commits,
         hourly_changes |-> hourly_changes,
         peak_activity |-> IF hourly_commits # <<>>
                           THEN [hour |-> LastMax(hourly_commits).hour,
                                 commits |-> LastMax(hourly_commits).count]
                           ELSE [hour |-> NoHour, commits |-> 0],
         velocity_commits_per_hour |-> velocity]

\* The dicts are their items in insertion order: an hour enters when its first
\* commit is met. The span is in minutes, so commits per hour is
\* len(commits) * 60 / span.
AnalyzeCommitTimeline(cs) ==
    LET hours == Keys([i \in 1..Len(cs) |-> HourKey(cs[i].timestamp)])
        InHour(h) == SelectSeq(cs, LAMBDA c : HourKey(c.timestamp) = h)
        hourly_commits == [k \in 1..Len(hours) |->
                              [hour |-> hours[k], count |-> Len(InHour(hours[k]))]]
        hourly_changes == [k \in 1..Len(hours) |->
                              [hour |-> hours[k],
                               changes |-> Sum([i \in 1..Len(InHour(hours[k])) |->
                                                   InHour(hours[k])[i].total_changes])]]
        time_span == cs[Len(cs)].timestamp - cs[1].timestamp
        velocity == IF Len(cs) > 1 /\ time_span > 0
                    THEN Round2(Len(cs) * MinutesPerHour, time_span)
                    ELSE 0
    IN  [hourly_distribution |-> hourly_commits,
         hourly_changes |-> hourly_changes,
         peak_activity |-> IF hourly_commits # <<>>
                           THEN [hour |-> FirstMax(hourly_commits).hour,
                                 commits |-> FirstMax(hourly_commits).count]
                           ELSE [hour |-> NoHour, commits |-> 0],
         velocity_commits_per_hour |-> velocity]

\* The list holds one to MaxTimelineCommits commits in any order, the commit
\* at position i with sha i and i changed lines.
InitTimeline ==
    /\ \E n \in 1..MaxTimelineCommits :
           \E at \in [1..n -> 1..Len(TimelineStamps)] :
               commits = [i \in 1..n |->
                             [sha |-> i, timestamp |-> TimelineStamps[at[i]],
                              total_changes |-> i]]
    /\ risk_level = ""
    /\ report = NoReport
    /\ ScanIdle
    /\ ClassifierIdle
    /\ ImpactIdle
    /\ CollectionIdle
    /\ ConvertIdle

\* analyze_commit_trends sorts the list and hands it to the timeline.
AnalyzeTimeline ==
    /\ report = NoReport
    /\ report' = AnalyzeCommitTimeline(SortByTimestampAsc(commits))
    /\ UNCHANGED <<commits, risk_level, scanVars, clsVars, impVars, colVars, cnvVars>>

NextTimeline == AnalyzeTimeline

SpecTimeline == InitTimeline /\ [][NextTimeline]_vars

-----------------------------------------------------------------------------
(* generate_insights applied to the commits of a collection: SpecInsights.  *)
(* An insight is the text of its string and the number formatted into it.  *)

MaxInsightCommits == 21
MaxInsightFiles == 3
InsightsLimit == 8

InsightAuthors ==
    <<[name |-> "Ann", email |-> "ann@example.com", username |-> "ann"],
      [name |-> "Bob", email |-> "bob@example.com", username |-> NoLogin],
      [name |-> "Cy", email |-> "cy@example.com", username |-> "cy"],
      [name |-> "Di", email |-> "di@example.com", username |-> "di"],
      [name |-> "Ed", email |-> "ed@example.com", username |-> NoLogin],
      [name |-> "Flo", email |-> "flo@example.com", username |-> "flo"]>>

InsightTypes == {"feature", "bugfix", "chore"}

\* Commit i of a list in which the commits go round the first `contributors`
\* authors, each changes `nfiles` files of its own (<<i, j>> is the name of
\* file j of commit i), the first `security` ones affect security and the
\* first `breaking` ones are breaking changes.
InsightCommit(i, contributors, nfiles, type, security, breaking) ==
    [sha |-> i,
     message |-> "m",
     author |-> InsightAuthors[(i % contributors) + 1],
     timestamp |-> i,
     branch |-> "main",
     files_changed |-> [j \in 1..nfiles |->
                           [filename |-> <<i, j>>, additions |-> 1, deletions |-> 0,
                            changes |-> 1]],
     additions |-> nfiles,
     deletions |-> 0,
     total_changes |-> nfiles,
     files_count |-> nfiles,
     commit_type |-> type,
     is_breaking_change |-> i <= breaking,
     affects_security |-> i <= security,
     affects_performance |-> FALSE]

NoCount == 0 - 1

\* A string without a number in it, and one with the number n in it.
Plain(text) == [text |-> text, n |-> NoCount]
Counted(text, n) == [text |-> text, n |-> n]

\* phase_messages.get(development_phase, ...)
PhaseMessage(development_phase) ==
    CASE development_phase = "active_development" -> "Active feature development phase"
      [] development_phase = "stabilization" -> "Focus on bug fixes and stabilization"
      [] development_phase = "maintenance" -> "Maintenance and refactoring period"
      [] development_phase = "balanced_development" -> "Balanced development approach"
      [] development_phase = "mixed_activity" -> "Mixed development activities"
      [] OTHER -> "Development activity detected"

\* risk_messages.get(risk_level, ...)
RiskMessage(level) ==
    CASE level = "high" -> "High-risk changes - careful deployment recommended"
      [] level = "medium" -> "Medium-risk changes - standard review process"
      [] level = "low" -> "Low-risk changes - safe for deployment"
      [] OTHER -> "Changes assessed"

\* The strings of a report that has a summary, before the cut to 8.
Insights(analysis) ==
    LET summary == analysis.summary
        types == analysis.types
        impact == analysis.impact
    IN  <<IF summary.total_commits > 20
          THEN Counted("High activity period with {} commits", summary.total_commits)
          ELSE IF summary.total_commits > 10
          THEN Counted("Moderate development activity with {} commits",
                       summary.total_commits)
          ELSE Counted("Light development activity with {} commits",
                       summary.total_commits)>>
        \o (IF summary.unique_contributors > 5
            THEN <<Counted("Strong team collaboration with {} contributors",
                           summary.unique_contributors)>>
            ELSE IF summary.unique_contributors > 2
            THEN <<Counted("Good team collaboration with {} contributors",
                           summary.unique_contributors)>>
            ELSE <<>>)
        \o (IF summary.files_affected > 50
            THEN <<Counted("Extensive changes across {} files", summary.files_affected)>>
            ELSE IF summary.files_affected > 20
            THEN <<Counted("Moderate scope with {} files affected", summary.files_affected)>>
            ELSE <<>>)
        \o (IF types.development_phase # ""
            THEN <<Plain(PhaseMessage(types.development_phase))>>
            ELSE <<>>)
        \o (IF impact.security_updates > 0
            THEN <<Counted("{} security updates included", impact.security_updates)>>
            ELSE <<>>)
        \o (IF impact.breaking_changes > 0
            THEN <<Counted("{} breaking changes detected", impact.breaking_changes)>>
            ELSE <<>>)
        \o <<Plain(RiskMessage(impact.risk_assessment))>>

\* A formatter that puts the risk label first.
GenerateInsightsRiskFirst(cs) ==
    LET analysis == AnalyzeCommitTrends(cs)
    IN  IF "summary" \notin DOMAIN analysis
        THEN <<Plain("No commit data available for analysis.")>>
        ELSE LET insights == Insights(analysis)
             IN  Take(<<insights[Len(insights)]>> \o SubSeq(insights, 1, Len(insights) - 1),
                      InsightsLimit)

\* generate_insights(commits), for commits.commits = cs
GenerateInsights(cs) ==
    LET analysis == AnalyzeCommitTrends(cs)
    IN  IF "summary" \notin DOMAIN analysis
        THEN <<Plain("No commit data available for analysis.")>>
        ELSE Take(Insights(analysis), InsightsLimit)

InitInsights ==
    /\ \E n \in 0..MaxInsightCommits :
       \E contributors \in 1..Len(InsightAuthors), nfiles \in 0..MaxInsightFiles :
       \E type \in InsightTypes, security \in 0..1, breaking \in 0..1 :
          commits = [i \in 1..n |->
                        InsightCommit(i, contributors, nfiles, type, security, breaking)]
    /\ risk_level = ""
    /\ report = NoReport
    /\ ScanIdle
    /\ ClassifierIdle
    /\ ImpactIdle
    /\ CollectionIdle
    /\ ConvertIdle

FormatInsights ==
    /\ report = NoReport
    /\ report' = [insights |-> GenerateInsights(commits)]
    /\ UNCHANGED <<commits, risk_level, scanVars, clsVars, impVars, colVars, cnvVars>>

NextInsights == FormatInsights

SpecInsights == InitInsights /\ [][NextInsights]_vars

-----------------------------------------------------------------------------
(* What the scan was given, for the statements about it                    *)

ScannedPositions == 1..Len(branches)
Failed(b) == failAt[b] # 0

\* The shas the iteration over the branch at position j yields before it ends
\* or raises.
SuppliedBy(j) ==
    LET b == branches[j]
        n == IF Failed(b) THEN failAt[b] - 1 ELSE Len(remote[b])
    IN  {remote[b][i] : i \in 1..n}

Suppliers(s) == {j \in ScannedPositions : s \in SuppliedBy(j)}
FirstSupplier(s) == CHOOSE j \in Suppliers(s) : \A k \in Suppliers(s) : j <= k

ShasOf(l) == {l[i].sha : i \in 1..Len(l)}

\* A record without its branch label: authorship, stats, classification.
Content(c) == [c EXCEPT !.branch = "main"]

-----------------------------------------------------------------------------
(* C1: the returned list holds exactly one record for every sha a branch   *)
(* supplied, and each record has the authorship, stats and classification  *)
(* of the payload of the first branch, in scan order, that supplied it.    *)
C1_OneRecordPerShaFirstContent ==
    pc = "returned" =>
        /\ \A i, j \in 1..Len(commits_list) :
              commits_list[i].sha = commits_list[j].sha => i = j
        /\ ShasOf(commits_list) = UNION {SuppliedBy(j) : j \in ScannedPositions}
        /\ \A i \in 1..Len(commits_list) :
              LET c == commits_list[i]
              IN  Content(c) = Content(Converted[branches[FirstSupplier(c.sha)], c.sha])

\* A sha was supplied by two branches with different payloads, and the list is returned.
C1_Witness ==
    /\ pc = "returned"
    /\ \E s \in Shas : \E j, k \in Suppliers(s) :
          /\ j < k
          /\ Content(Converted[branches[j], s]) # Content(Converted[branches[k], s])

(* C2: when a stored sha is sighted again, its label becomes the name of   *)
(* the branch being scanned if and only if the stored label is "main" and  *)
(* that branch is not "main", and is left alone otherwise; a commit that   *)
(* "main" supplied first carries, in the returned list, the name of the    *)
(* next branch after "main" that supplied it.                              *)
C2_RelabelStep ==
    (Yields /\ HasSha(all_commits, remote[ThisBranch][ci])) =>
        LET i == IndexOfSha(all_commits, remote[ThisBranch][ci])
            old == all_commits[i].branch
            new == all_commits'[i].branch
        IN  /\ Len(all_commits') = Len(all_commits)
            /\ (new = ThisBranch) <=> (old = "main" /\ ThisBranch # "main")
            /\ ~(old = "main" /\ ThisBranch # "main") => new = old

C2_FinalLabel ==
    pc = "returned" =>
        \A i \in 1..Len(commits_list) :
            LET s == commits_list[i].sha
                later == Suppliers(s) \ {FirstSupplier(s)}
            IN  (branches[FirstSupplier(s)] = "main" /\ later # {}) =>
                    commits_list[i].branch =
                        branches[CHOOSE j \in later : \A k \in later : j <= k]

C2_BranchLabelRule == [][C2_RelabelStep]_vars /\ []C2_FinalLabel

\* A record stored under "main" has been relabelled by a later branch, and returned.
C2_Witness ==
    /\ pc = "returned"
    /\ \E i \in 1..Len(commits_list) :
          LET s == commits_list[i].sha
          IN  /\ branches[FirstSupplier(s)] = "main"
              /\ Cardinality(Suppliers(s)) >= 2
              /\ commits_list[i].branch # "main"

(* C3: a commit supplied by "main" and by exactly one other branch B is    *)
(* labelled B in the returned list, whichever of the two was scanned first. *)
C3_LabelIndependentOfOrder ==
    pc = "returned" =>
        \A i \in 1..Len(commits_list) :
            LET on == {branches[j] : j \in Suppliers(commits_list[i].sha)}
            IN  ("main" \in on /\ Cardinality(on) = 2) =>
                    commits_list[i].branch \in on \ {"main"}

\* The order in which the rule matters: B was scanned before "main".
C3_Witness ==
    /\ pc = "returned"
    /\ \E s \in ShasOf(commits_list) :
          /\ Cardinality(Suppliers(s)) = 2
          /\ branches[FirstSupplier(s)] # "main"
          /\ \E j \in Suppliers(s) : branches[j] = "main"

(* C4: a branch whose fetch raises does not abort the scan: the call       *)
(* raises only when nothing was scanned, and the returned list holds every *)
(* commit of every branch whose fetch succeeded.                           *)
C4_BranchFailureIsolated ==
    /\ pc = "raised" => bi = 1 /\ ci = 1 /\ all_commits = <<>>
    /\ \A j \in ScannedPositions : j < bi => branches[j] \in DOMAIN branch_stats
    /\ pc = "returned" =>
          \A j \in ScannedPositions :
              ~Failed(branches[j]) => Range(remote[branches[j]]) \subseteq ShasOf(commits_list)

\* A failing branch between two succeeding ones, each of which alone supplied a commit.
C4_Witness ==
    /\ pc = "returned"
    /\ Len(branches) = 3
    /\ ~Failed(branches[1]) /\ Failed(branches[2]) /\ ~Failed(branches[3])
    /\ \E s, u \in ShasOf(commits_list) :
          /\ Suppliers(s) = {1}
          /\ Suppliers(u) = {3}

(* C5: when the fetch of every scanned branch raised, the call does not    *)
(* return a list: it raises.                                               *)
C5_TotalFailurePropagates ==
    (Len(branches) > 0 /\ \A j \in ScannedPositions : Failed(branches[j])) =>
        pc # "returned"

(* C6: the map is changed only by branches whose fetch completes: no step  *)
(* taken while scanning a branch whose fetch raises part-way changes       *)
(* all_commits.                                                            *)
C6_OnlyFullyFetchedBranchesMutate ==
    [][(InBranch /\ Failed(ThisBranch)) => all_commits' = all_commits]_vars

(* C7: the returned list is sorted by timestamp, newest first.             *)
C7_SortedNewestFirst ==
    pc = "returned" =>
        \A i \in 1..(Len(commits_list) - 1) :
            commits_list[i].timestamp >= commits_list[i + 1].timestamp

\* The dict was not in timestamp order, so the sort moved a record.
C7_Witness ==
    /\ pc = "returned"
    /\ Len(commits_list) >= 2
    /\ commits_list # all_commits

-----------------------------------------------------------------------------
(* The order of the categories, as the claims about the classifier state it *)

CategoryOrder ==
    <<[type |-> "feature", keywords |-> FeatureKeywords],
      [type |-> "bugfix", keywords |-> BugfixKeywords],
      [type |-> "security", keywords |-> SecurityTypeKeywords],
      [type |-> "performance", keywords |-> PerformanceTypeKeywords],
      [type |-> "documentation", keywords |-> DocumentationKeywords],
      [type |-> "refactor", keywords |-> RefactorKeywords],
      [type |-> "test", keywords |-> TestKeywords],
      [type |-> "style", keywords |-> StyleKeywords],
      [type |-> "chore", keywords |-> ChoreKeywords]>>

\* The places of the categories one of whose keywords occurs in lowered.
Hits(lowered) == {i \in 1..Len(CategoryOrder) : AnyIn(CategoryOrder[i].keywords, lowered)}

(* C8: the category is the first one, in the order FEATURE, BUGFIX,        *)
(* SECURITY, PERFORMANCE, DOCUMENTATION, REFACTOR, TEST, STYLE, CHORE, a   *)
(* keyword of which occurs in the lower-cased message, whatever the files; *)
(* a message that contains "fix:" and no FEATURE keyword is BUGFIX.        *)
C8_FirstKeywordCategoryWins ==
    classified # NotClassified =>
        LET hits == Hits(Lower(message)) IN
        /\ hits # {} =>
              classified.commit_type =
                  CategoryOrder[CHOOSE i \in hits : \A k \in hits : i <= k].type
        /\ (Contains(message, "fix:") /\ 1 \notin hits) =>
              classified.commit_type = "bugfix"

\* "fix:" with a keyword of a later category, written in capitals, and files
\* that the file heuristic would call tests.
C8_Witness ==
    /\ classified # NotClassified
    /\ Contains(Lower(message), "fix:")
    /\ ~Contains(message, "fix:")
    /\ 3 \in Hits(Lower(message))
    /\ ClassifyByFiles(files) = "test"
    /\ classified.commit_type = "bugfix"

(* C9: "BREAKING CHANGE: remove v1 API" with files that trigger no file    *)
(* heuristic and hold no security path fragment is a breaking change, does *)
(* not affect security, and is of category OTHER.                          *)
C9_BreakingChangeScenario ==
    (/\ classified # NotClassified
     /\ message = "BREAKING CHANGE: remove v1 API"
     /\ ClassifyByFiles(files) = "other"
     /\ \A i \in 1..Len(files) : ~AnyIn(SecurityFiles, Lower(files[i]))) =>
        /\ classified.is_breaking_change = TRUE
        /\ classified.affects_security = FALSE
        /\ classified.commit_type = "other"

C9_Witness ==
    /\ classified # NotClassified
    /\ message = "BREAKING CHANGE: remove v1 API"
    /\ files = <<"src/app.py">>
    /\ classified.commit_type = "other"

(* C10: the impact score lies in [0.0, 1.0]; with 0 files, 0 changes and   *)
(* neither flag it is the category weight alone, which is at least 0.02.   *)
C10_ImpactScoreInUnitInterval ==
    impact_score # NoScore =>
        /\ 0 <= impact_score /\ impact_score <= 100
        /\ (/\ commit.files_count = 0
            /\ commit.total_changes = 0
            /\ ~commit.is_breaking_change
            /\ ~commit.affects_security) =>
              /\ impact_score = TypeWeight(commit.commit_type)
              /\ impact_score >= 2

\* A commit whose components add up to more than 1.0 has been scored.
C10_Witness ==
    /\ impact_score # NoScore
    /\ RawImpactScore(commit) > 100
    /\ impact_score = 100

\* The order low < medium < high of the risk levels; "no_changes" is below them.
RiskRank(level) ==
    CASE level = "low" -> 1
      [] level = "medium" -> 2
      [] level = "high" -> 3
      [] OTHER -> 0

(* C11: replacing a non-breaking commit of an assessed set by an otherwise  *)
(* identical breaking one never lowers the risk level in the order          *)
(* low < medium < high.                                                     *)
C11_RiskMonotoneInBreaking ==
    [][(risk_level # "" /\ commits' # commits)
          => RiskRank(risk_level') >= RiskRank(risk_level)]_vars

\* A set of ten or more of which one commit was made breaking: one in ten is
\* not more than 0.1, so the set is "medium", by its breaking change alone.
C11_Witness ==
    /\ Len(commits) >= 10
    /\ Cardinality({i \in 1..Len(commits) : commits[i].is_breaking_change}) = 1
    /\ \A i \in 1..Len(commits) : CalculateImpactScore(commits[i]) < 70
    /\ risk_level = "medium"

\* How many commits of the list are of a category
TypeCount(commit_type) ==
    Cardinality({i \in 1..Len(commits) : commits[i].commit_type = commit_type})

(* C12: the phase is active_development when the feature ratio is above 0.4; *)
(* else stabilization when the bugfix ratio is above 0.5; else maintenance   *)
(* when the refactor ratio is above 0.3; else balanced_development when the  *)
(* feature and the bugfix ratio are both above 0.2; else mixed_activity. For *)
(* 1 FEATURE, 3 BUGFIX and 1 DOCUMENTATION commit it is stabilization.       *)
C12_DevelopmentPhasePrecedence ==
    report # NoReport =>
        LET n == Len(commits)
            f == TypeCount("feature")
            b == TypeCount("bugfix")
            r == TypeCount("refactor")
        IN  /\ report.development_phase =
                  IF 10 * f > 4 * n THEN "active_development"
                  ELSE IF 10 * b > 5 * n THEN "stabilization"
                  ELSE IF 10 * r > 3 * n THEN "maintenance"
                  ELSE IF 10 * f > 2 * n /\ 10 * b > 2 * n THEN "balanced_development"
                  ELSE "mixed_activity"
            /\ (n = 5 /\ f = 1 /\ b = 3 /\ TypeCount("documentation") = 1)
                  => report.development_phase = "stabilization"

C12_Witness ==
    /\ report # NoReport
    /\ Len(commits) = 5
    /\ TypeCount("feature") = 1
    /\ TypeCount("bugfix") = 3
    /\ TypeCount("documentation") = 1
    /\ report.development_phase = "stabilization"

(* C13: for an empty commit list analyze_commit_trends returns the explicit *)
(* empty report {"error": "No commits to analyze"} and does not raise, and  *)
(* _assess_risk_level answers "no_changes" for the empty set.               *)
C13_EmptyListEmptyReport ==
    commits = <<>> =>
        /\ report # NoReport => report = [error |-> "No commits to analyze"]
        /\ risk_level # "" => risk_level = "no_changes"

C13_Witness ==
    /\ commits = <<>>
    /\ report = [error |-> "No commits to analyze"]
    /\ risk_level = "no_changes"

\* The author emails of the analysed list
Emails == {commits[i].author.email : i \in 1..Len(commits)}

(* C20: the contributor analysis has one entry per author email, also for   *)
(* two emails that share a display name: total_contributors is the number   *)
(* of distinct emails, every email has its entry in top_contributors, and   *)
(* collaboration_score is that number over the number of commits.           *)
C20_ContributorsGroupedByEmail ==
    (report # NoReport /\ commits # <<>>) =>
        LET c == report.contributors
        IN  /\ c.total_contributors = Cardinality(Emails)
            /\ \A e \in Emails :
                   \E k \in 1..Len(c.top_contributors) : c.top_contributors[k].email = e
            /\ c.collaboration_score.num * Len(commits)
                   = Cardinality(Emails) * c.collaboration_score.den

(* C14: commits_per_hour is 0 whenever end_time - start_time is zero or     *)
(* negative, for any total_commits, and the division never raises;          *)
(* otherwise it is total_commits divided by the window length in hours.     *)
C14_CommitsPerHourGuarded ==
    commits_per_hour # NoRate =>
        LET hours == collection.end_time - collection.start_time
        IN  /\ commits_per_hour.den # 0
            /\ hours <= 0 => commits_per_hour.num = 0
            /\ hours > 0 =>
                  commits_per_hour.num * hours = collection.total_commits * commits_per_hour.den

\* Read on a window that ends before it starts, with commits counted.
C14_Witness ==
    /\ commits_per_hour # NoRate
    /\ collection.end_time < collection.start_time
    /\ collection.total_commits > 0
    /\ commits_per_hour.num = 0

\* The five fields _analyze_commits assigns
SummaryOf(c) ==
    [commit_types |-> c.commit_types, top_contributors |-> c.top_contributors,
     most_changed_files |-> c.most_changed_files,
     breaking_changes |-> c.breaking_changes, security_updates |-> c.security_updates]

(* C15: a second run of _analyze_commits on the same commit list leaves     *)
(* commit_types, top_contributors, most_changed_files, breaking_changes and *)
(* security_updates as the first run left them.                             *)
C15_AnalyzeCommitsIdempotent ==
    [][(collection # NoCollection /\ collection' # NoCollection)
          => SummaryOf(collection') = SummaryOf(collection)]_vars

\* Run twice on a list with a breaking change, contributors and files.
C15_Witness ==
    /\ collection # NoCollection
    /\ collection.analyses = 2
    /\ Len(collection.commits) = 2
    /\ collection.breaking_changes > 0
    /\ collection.top_contributors # <<>>
    /\ collection.most_changed_files # <<>>

(* C16: after construction every summary field (total_commits,              *)
(* total_additions, total_deletions, commit_types, top_contributors,        *)
(* most_changed_files, breaking_changes, security_updates) has the value    *)
(* derived from the commit list, whatever the caller passed, also when the  *)
(* list is empty.                                                           *)
C16_SummaryDerivedFromCommits ==
    collection # NoCollection =>
        LET cs == collection.commits
        IN  /\ collection.total_commits = Len(cs)
            /\ collection.total_additions = Sum([i \in 1..Len(cs) |-> cs[i].additions])
            /\ collection.total_deletions = Sum([i \in 1..Len(cs) |-> cs[i].deletions])
            /\ SummaryOf(collection) = DerivedSummary(cs)

(* C17: a window in which every branch was fetched and no commit came back  *)
(* is not an error: the collection has total_commits 0, an empty histogram, *)
(* empty contributor and file lists and zero breaking and security counts,  *)
(* and the endpoint answers success = true with an empty post list.         *)
C17_EmptyWindowIsValid ==
    (pc \in {"collected", "responded"} /\ collection # NoCollection /\ commits_list = <<>>) =>
        /\ collection.commits = <<>>
        /\ collection.total_commits = 0
        /\ collection.commit_types = <<>>
        /\ collection.top_contributors = <<>>
        /\ collection.most_changed_files = <<>>
        /\ collection.breaking_changes = 0
        /\ collection.security_updates = 0
        /\ pc = "responded" => response = [success |-> TRUE, posts |-> <<>>]

\* Two branches were fetched to their end, neither held a commit in the
\* window, and the endpoint has answered.
C17_Witness ==
    /\ pc = "responded"
    /\ Len(branches) >= 2
    /\ \A b \in Range(branches) : failAt[b] = 0 /\ remote[b] = <<>>
    /\ collection # NoCollection
    /\ collection.total_commits = 0
    /\ response = [success |-> TRUE, posts |-> <<>>]

(* C18: a commit that cannot be converted is isolated: the scan returns,    *)
(* and every other commit of the same branch and of the other branches is   *)
(* in the returned list.                                                    *)
C18_MalformedCommitIsolated ==
    pc = "returned" =>
        \A b \in Range(branches) : \A i \in 1..Len(remote[b]) :
            failAt[b] # i => HasSha(commits_list, remote[b][i])

-----------------------------------------------------------------------------
(* The impact section of the report                                        *)

NotableShas == {report.notable_commits[i].sha : i \in 1..Len(report.notable_commits)}

\* C21: notable_commits holds at most 5 commits and they are the highest-impact
\* ones: no commit left out of it scores strictly higher than one in it.
C21_NotableAreHighestImpact ==
    report # NoReport =>
        /\ Len(report.notable_commits) <= 5
        /\ \A i, j \in 1..Len(commits) :
               (commits[i].sha \in NotableShas /\ commits[j].sha \notin NotableShas)
                   => CalculateImpactScore(commits[j]) <= CalculateImpactScore(commits[i])

\* C23: the three tiers partition the commits: high is the number of commits of
\* score >= 0.7, medium of score >= 0.4 and < 0.7, low of score < 0.4, and the
\* three counts sum to the number of commits.
C23_TiersPartitionCommits ==
    report # NoReport =>
        LET scores == [i \in 1..Len(commits) |-> CalculateImpactScore(commits[i])]
            dist == report.impact_distribution
        IN  /\ dist.high = Cardinality({i \in 1..Len(commits) : scores[i] >= 70})
            /\ dist.medium = Cardinality({i \in 1..Len(commits) :
                                             scores[i] >= 40 /\ scores[i] < 70})
            /\ dist.low = Cardinality({i \in 1..Len(commits) : scores[i] < 40})
            /\ dist.high + dist.medium + dist.low = Len(commits)

\* A list with a commit on each boundary and in every tier was analysed.
C23_Witness ==
    /\ report # NoReport
    /\ \E i, j \in 1..Len(commits) :
           /\ CalculateImpactScore(commits[i]) = 40
           /\ CalculateImpactScore(commits[j]) = 70
    /\ report.impact_distribution.high >= 2
    /\ report.impact_distribution.medium >= 1
    /\ report.impact_distribution.low >= 1

-----------------------------------------------------------------------------
(* The risk level of a commit set                                          *)

Breaking(cs) == Cardinality({i \in 1..Len(cs) : cs[i].is_breaking_change})
Security(cs) == Cardinality({i \in 1..Len(cs) : cs[i].affects_security})
HighScoring(cs) == Cardinality({i \in 1..Len(cs) : CalculateImpactScore(cs[i]) >= 70})

\* C22: the risk level is no_changes for the empty set; otherwise high when
\* the breaking ratio is above 0.1 or the security ratio above 0.2; otherwise
\* medium when the ratio of commits scoring >= 0.7 is above 0.3 or there is a
\* breaking commit; otherwise low.
C22_RiskLevelRules ==
    risk_level # "" =>
        LET n == Len(commits)
        IN  /\ risk_level = "no_changes" <=> n = 0
            /\ risk_level = "high" <=>
                   /\ n > 0
                   /\ 10 * Breaking(commits) > n \/ 5 * Security(commits) > n
            /\ risk_level = "medium" <=>
                   /\ n > 0
                   /\ ~(10 * Breaking(commits) > n \/ 5 * Security(commits) > n)
                   /\ 10 * HighScoring(commits) > 3 * n \/ Breaking(commits) > 0
            /\ risk_level \in {"no_changes", "high", "medium", "low"}

\* A set with one security commit in five, a ratio of exactly 0.2, and no
\* breaking commit was assessed, and the high-scoring commits made it medium.
C22_Witness ==
    /\ risk_level = "medium"
    /\ Len(commits) = 5
    /\ Security(commits) = 1
    /\ Breaking(commits) = 0

-----------------------------------------------------------------------------
(* The fallback of the classifier and the security flag                    *)

\* C28: the classifier returns one member of the set of ten categories; with
\* no keyword in the message it returns TEST when more than half of the files
\* are test files, else DOCUMENTATION when more than half are documentation
\* files, else OTHER, which is also the answer for an empty file list.
C28_FileFallback ==
    classified # NotClassified =>
        /\ classified.commit_type \in CommitType
        /\ Cardinality(CommitType) = 10
        /\ Hits(Lower(message)) = {} =>
               classified.commit_type =
                   IF 2 * TestFiles(files) > Len(files) THEN "test"
                   ELSE IF 2 * DocFiles(files) > Len(files) THEN "documentation"
                   ELSE "other"
        /\ (Hits(Lower(message)) = {} /\ files = <<>>) => classified.commit_type = "other"

\* A message without keyword, and files of which exactly half are test files.
C28_Witness ==
    /\ classified # NotClassified
    /\ Hits(Lower(message)) = {}
    /\ files # <<>>
    /\ 2 * TestFiles(files) = Len(files)
    /\ classified.commit_type = "other"

\* C29: a commit classified SECURITY has affects_security set.
C29_SecurityTypeSetsFlag ==
    (classified # NotClassified /\ classified.commit_type = "security")
        => classified.affects_security

-----------------------------------------------------------------------------
(* The life of a stored record during one scan                             *)

\* What a step of the scan does to the records already stored: they stay, at
\* their places, with their sha, authorship, stats and classification, and a
\* label changes only from "main" to another name.
C30_StoredRecordStep ==
    pc = "scan" =>
        /\ Len(all_commits') >= Len(all_commits)
        /\ \A i \in 1..Len(all_commits) :
               LET old == all_commits[i]
                   new == all_commits'[i]
               IN  /\ new.sha = old.sha
                   /\ Content(new) = Content(old)
                   /\ new.branch # old.branch => (old.branch = "main" /\ new.branch # "main")

\* C30: during a scan the label of a stored record changes only from "main" to
\* a name that is not "main", so at most once, and a label that is not "main"
\* is never changed by a later sighting; the sha and the classification
\* fields of a stored record never change.
C30_LabelChangesAtMostOnce == [][C30_StoredRecordStep]_vars

\* A record stored under "main" was relabelled by the second branch and then
\* sighted again on a third.
C30_Witness ==
    /\ pc = "returned"
    /\ Len(branches) = 3
    /\ \E i \in 1..Len(all_commits) :
          LET s == all_commits[i].sha
          IN  /\ Suppliers(s) = {1, 2, 3}
              /\ branches[1] = "main"
              /\ all_commits[i].branch = branches[2]

-----------------------------------------------------------------------------
(* The timeline                                                            *)

\* The commits of the list made in hour h, and the hours that have commits.
CommitsIn(h) == {i \in 1..Len(commits) : HourKey(commits[i].timestamp) = h}
Hours == {HourKey(commits[i].timestamp) : i \in 1..Len(commits)}

\* The time between the first and the last commit, in minutes.
SpanMinutes ==
    LET stamps == {commits[i].timestamp : i \in 1..Len(commits)}
    IN  MaxOf(stamps) - MinOf(stamps)

\* The peak is an hour with the highest commit count, and the earliest such.
PeakIsEarliestBusiestHour ==
    LET peak == report.peak_activity
    IN  /\ peak.hour \in Hours
        /\ peak.commits = Cardinality(CommitsIn(peak.hour))
        /\ \A h \in Hours : Cardinality(CommitsIn(h)) <= peak.commits
        /\ \A h \in Hours : Cardinality(CommitsIn(h)) = peak.commits => peak.hour <= h

\* C26 as stated: the peak is the earliest of the busiest hours, and the
\* velocity is the number of commits divided by the hours between the first
\* and the last commit, 0 with fewer than 2 commits or a span of 0.
C26_PeakAndExactVelocity ==
    report # NoReport =>
        /\ PeakIsEarliestBusiestHour
        /\ IF Len(commits) < 2 \/ SpanMinutes = 0
           THEN report.velocity_commits_per_hour = 0
           ELSE report.velocity_commits_per_hour * SpanMinutes
                    = 100 * Len(commits) * MinutesPerHour

\* C26, amended: the peak is the earliest of the busiest hours, and the
\* velocity is the number of commits divided by the hours between the first
\* and the last commit, rounded to the nearest hundredth, 0 with fewer than 2
\* commits or a span of 0.
C26_PeakAndRoundedVelocity ==
    report # NoReport =>
        /\ PeakIsEarliestBusiestHour
        /\ IF Len(commits) < 2 \/ SpanMinutes = 0
           THEN report.velocity_commits_per_hour = 0
           ELSE LET exact == 100 * Len(commits) * MinutesPerHour
                    shown == report.velocity_commits_per_hour * SpanMinutes
                IN  /\ 2 * (shown - exact) <= SpanMinutes
                    /\ 2 * (exact - shown) <= SpanMinutes

\* Two hours tie for the peak, the later of them comes first in the input, and
\* the velocity is not a whole number of hundredths.
C26_Witness ==
    /\ report # NoReport
    /\ \E h \in Hours : h # report.peak_activity.hour
                        /\ Cardinality(CommitsIn(h)) = report.peak_activity.commits
    /\ HourKey(commits[1].timestamp) # report.peak_activity.hour
    /\ (100 * Len(commits) * MinutesPerHour) % SpanMinutes # 0

-----------------------------------------------------------------------------
(* The report and the order of the input                                   *)

\* A report as Python compares it: a dict is the set of its items, whatever
\* their order; a list and a tuple keep their order.
TypesUnordered(types) ==
    [types EXCEPT !.type_distribution = Range(@),
                  !.type_ratios = Range(@),
                  !.type_timeline = {[day |-> @[d].day, types |-> Range(@[d].types)] :
                                        d \in 1..Len(@)}]

Unordered(r) ==
    IF "summary" \in DOMAIN r
    THEN [r EXCEPT !.contributors = [@ EXCEPT !.top_contributors = Range(@)],
                   !.types = TypesUnordered(@)]
    ELSE r

\* The lists that hold the commits of cs, in every order.
Orders(cs) == {l \in TrendCommitLists : Len(l) = Len(cs) /\ Range(l) = Range(cs)}

\* C27: the report does not depend on the order of the input list: the same
\* commits given in any other order yield the same report.
C27_ReportIndependentOfOrder ==
    report # NoReport =>
        \A l \in Orders(commits) :
            Unordered(AnalyzeCommitTrends(l)) = Unordered(report)

-----------------------------------------------------------------------------
(* The contributors of a collection                                        *)

\* The contributor identities of the commits of the collection.
Identities == {AuthorKey(collection.commits[i]) : i \in 1..Len(collection.commits)}
CommitsOf(a) == {i \in 1..Len(collection.commits) : AuthorKey(collection.commits[i]) = a}

RECURSIVE SumOver(_, _)
SumOver(f, S) ==
    IF S = {} THEN 0
    ELSE LET x == CHOOSE x \in S : TRUE IN f[x] + SumOver(f, S \ {x})

\* C25: top_contributors has at most 5 entries, one per contributor identity
\* (the username, or the display name without one), in order of non-increasing
\* commit count; the commits, additions and deletions of an entry are the sums
\* over the commits of that contributor; and no contributor left out has more
\* commits than one that is listed.
C25_TopContributors ==
    collection # NoCollection =>
        LET cs == collection.commits
            top == collection.top_contributors
            listed == {top[k].name : k \in 1..Len(top)}
        IN  /\ Len(top) <= 5
            /\ listed \subseteq Identities
            /\ \A j, k \in 1..Len(top) : j # k => top[j].name # top[k].name
            /\ \A k \in 1..(Len(top) - 1) : top[k].commits >= top[k + 1].commits
            /\ \A k \in 1..Len(top) :
                   /\ top[k].commits = Cardinality(CommitsOf(top[k].name))
                   /\ top[k].additions =
                          SumOver([i \in 1..Len(cs) |-> cs[i].additions], CommitsOf(top[k].name))
                   /\ top[k].deletions =
                          SumOver([i \in 1..Len(cs) |-> cs[i].deletions], CommitsOf(top[k].name))
            /\ \A a \in Identities \ listed : \A k \in 1..Len(top) :
                   Cardinality(CommitsOf(a)) <= top[k].commits

-----------------------------------------------------------------------------
(* The insight strings                                                     *)

\* The category of a string, by its text, and the place of a category.
InsightCategory(text) ==
    CASE text \in {"High activity period with {} commits",
                   "Moderate development activity with {} commits",
                   "Light development activity with {} commits"} -> 1
      [] text \in {"Strong team collaboration with {} contributors",
                   "Good team collaboration with {} contributors"} -> 2
      [] text \in {"Extensive changes across {} files",
                   "Moderate scope with {} files affected"} -> 3
      [] text \in {"Active feature development phase",
                   "Focus on bug fixes and stabilization",
                   "Maintenance and refactoring period",
                   "Balanced development approach",
                   "Mixed development activities",
                   "Development activity detected"} -> 4
      [] text = "{} security updates included" -> 5
      [] text = "{} breaking changes detected" -> 6
      [] text \in {"High-risk changes - careful deployment recommended",
                   "Medium-risk changes - standard review process",
                   "Low-risk changes - safe for deployment",
                   "Changes assessed"} -> 7
      [] OTHER -> 0

\* C24: at most 8 strings, in the order volume, contributor count, file scope,
\* phase, security count, breaking count, risk level, at most one of a
\* category; the security string and the breaking string are there exactly
\* when the list has a commit that affects security, or one that is a breaking
\* change, and carry that count; the last string of a list that is not empty
\* is the label of its risk level.
C24_InsightsOrderedByCategory ==
    report # NoReport =>
        LET insights == report.insights
            category == [k \in 1..Len(insights) |-> InsightCategory(insights[k].text)]
            security == Cardinality({i \in 1..Len(commits) : commits[i].affects_security})
            breaking == Cardinality({i \in 1..Len(commits) : commits[i].is_breaking_change})
        IN  /\ Len(insights) <= 8
            /\ \A k \in 1..(Len(insights) - 1) : category[k] < category[k + 1]
            /\ (\E k \in 1..Len(insights) : category[k] = 5) <=> security > 0
            /\ (\E k \in 1..Len(insights) : category[k] = 6) <=> breaking > 0
            /\ \A k \in 1..Len(insights) :
                   /\ category[k] = 5 => insights[k].n = security
                   /\ category[k] = 6 => insights[k].n = breaking
            /\ commits # <<>> =>
                   /\ \A k \in 1..Len(insights) : category[k] # 0
                   /\ category[1] = 1
                   /\ insights[Len(insights)].text = RiskMessage(AssessRiskLevel(commits))
                   /\ AssessRiskLevel(commits) \in {"high", "medium", "low"}

\* All seven strings were returned, for more than 20 commits.
C24_Witness ==
    /\ report # NoReport
    /\ Len(report.insights) = 7
    /\ Len(commits) > 20
    /\ report.insights[5].text = "{} security updates included"
    /\ report.insights[6].text = "{} breaking changes detected"

====
